---- MODULE Spec2Model ----
(***************************************************************************)
(* Model of the Hacker News scanner pipeline: the fetch service            *)
(* (lib/hacker-news), the scrape scheduler and extractor client            *)
(* (lib/scraping) and the embedding processor (lib/embeddings), over the   *)
(* storage tables of the Prisma migration.                                 *)
(***************************************************************************)
EXTENDS Integers, Sequences, FiniteSets, TLC

(***************************************************************************)
(* Bounds of the model.                                                    *)
(***************************************************************************)
MaxStories == 2

\* Length of the id list given to filterStoryIds on its own.
MaxListLen == 3

\* Longest script of responses of a remote endpoint.
MaxScript == 3

(***************************************************************************)
(* Values.                                                                 *)
(***************************************************************************)
NULL == "null"
undefined == "undefined"
Infinity == 1000000
SecondsPerHour == 3600
DefaultHours == 24

StoryIds == 1..MaxStories
CommentIds == {MaxStories + 1, MaxStories + 2}
ItemIds == StoryIds \cup CommentIds
ListEndpoint == 0
\* The database, when it is the one that fails during a call.
StorageEndpoint == 0 - 1
StorageError == "Can't reach database server"
Urls == {"https://e.example/a", "https://e.example/b"}

\* Date.now() / 1000 at the time of a run: the newest item of the feed is
\* posted at this instant, item s at s hours after the epoch.
NowSeconds == MaxStories * SecondsPerHour

VARIABLES
  feed,            \* the upstream API: id -> item served by /item/{id}.json
  down,            \* endpoints that answer every attempt of a call with an error
  hnStory,         \* table HnStory: id -> row
  hnComment,       \* table HnComment: id -> row
  scrapedArticle,  \* table ScrapedArticle: rows in creation order, id = position
  fetchRun,        \* the running fetchAndPersistStories call, or its last result
  prevFetch,       \* summary of the fetch run completed before fetchRun
  embedding,       \* table Embedding: rows in insertion order
  scrapeRun,       \* the running scrapeAndPersistArticles call, or its last result
  embedRun,        \* the running processAllArticles call, or its last result
  embedCall,       \* the last processArticle call and its outcome
  filterCall,      \* the last filterStoryIds call: its options and what it did
  httpCall,        \* a call of the API client or of scrapeUrl, request by request
  persistCall,     \* the last persistStory / persistComment call made on its own
  robots,          \* robotsCache and the robots.txt requests made so far
  worker,          \* processArticle calls in flight, await by await
  generator,       \* embeddingPipeline and the generateEmbedding calls in flight
  task,            \* table Task and the script invocations in flight
  chunkCall,       \* the last chunkText call made on its own
  traversal,       \* a fetchComments call, fetchItem by fetchItem
  fetcher,         \* fetchAndPersistStories calls in flight, await by await
  extractCall      \* the last extractContent call made on its own

vars == <<feed, down, hnStory, hnComment, scrapedArticle, fetchRun, prevFetch,
          embedding, scrapeRun, embedRun, embedCall, filterCall, httpCall,
          persistCall, robots, worker, generator, task, chunkCall, extractCall, fetcher, traversal>>


(***************************************************************************)
(* The upstream feed.                                                      *)
(***************************************************************************)
\* newstories.json: most recent first.
RECURSIVE Descending(_)
Descending(n) == IF n = 0 THEN <<>> ELSE <<n>> \o Descending(n - 1)

NewStoriesList == Descending(MaxStories)

\* What /item/{s}.json serves for an id of the new-stories list: a story
\* with an external URL, a self-text story (url undefined), an item of
\* another type, or null.
StoryKinds == Urls \cup {undefined, "job", NULL}

\* The reply threads the API serves.  "nested": story 1 has one reply, which
\* has one reply of its own.  "shared": the kids lists of story 1 and of the
\* newest story both name the first reply.  "split" (not among the threads
\* of Feeds): story 1 and the newest story have one reply each.  "forked",
\* "self" and "loop" (not among the threads of Feeds either): story 1 has
\* two replies, the first of which has a reply of its own; the kids list of
\* the one reply of story 1 names that reply; the reply of the one reply of
\* story 1 names it in its kids list.
Threads == {"nested", "shared"}

FirstReply == MaxStories + 1
SecondReply == MaxStories + 2
ThirdReply == MaxStories + 3

Kids(thread, id) ==
  IF thread = "nested"
  THEN IF id = 1 THEN <<FirstReply>>
       ELSE IF id = FirstReply THEN <<SecondReply>> ELSE <<>>
  ELSE IF thread = "split"
  THEN IF id = 1 THEN <<FirstReply>>
       ELSE IF id = MaxStories THEN <<SecondReply>> ELSE <<>>
  ELSE IF thread = "forked"
  THEN IF id = 1 THEN <<FirstReply, SecondReply>>
       ELSE IF id = FirstReply THEN <<ThirdReply>> ELSE <<>>
  ELSE IF thread = "self"
  THEN IF id = 1 \/ id = FirstReply THEN <<FirstReply>> ELSE <<>>
  ELSE IF thread = "loop"
  THEN IF id = 1 \/ id = SecondReply THEN <<FirstReply>>
       ELSE IF id = FirstReply THEN <<SecondReply>> ELSE <<>>
  ELSE IF id = MaxStories THEN <<FirstReply, SecondReply>>
       ELSE IF id = 1 THEN <<FirstReply>> ELSE <<>>

Parent(thread, id) ==
  IF thread = "nested"
  THEN IF id = FirstReply THEN 1 ELSE FirstReply
  ELSE IF thread = "split"
  THEN IF id = FirstReply THEN 1 ELSE MaxStories
  ELSE IF thread \in {"forked", "self", "loop"}
  THEN IF id = FirstReply \/ (thread = "forked" /\ id = SecondReply) THEN 1
       ELSE FirstReply
  ELSE MaxStories

\* Item s of the list is posted s hours after the epoch.
PostingTimes == [s \in StoryIds |-> s * SecondsPerHour]

Feeds == [kind : [StoryIds -> StoryKinds], thread : Threads, time : {PostingTimes}]

\* The JSON body of /item/{id}.json under feed f: an HnItem, or null (an
\* item without fields, of type NULL).
NullItem == [type |-> NULL]

\* What /item/{id}.json serves for a reply id: a comment, unless the feed
\* says that it serves an item of another type or null for it.
ReplyKinds == {"comment", "story", NULL}

ReplyKind(f, id) ==
  IF "reply" \in DOMAIN f THEN f.reply[id] ELSE "comment"

HnItem(f, id) ==
  IF id \in DOMAIN f.kind
  THEN IF f.kind[id] = NULL THEN NullItem
       ELSE [id |-> id,
             type |-> IF f.kind[id] = "job" THEN "job" ELSE "story",
             time |-> f.time[id],
             url |-> IF f.kind[id] \in Urls THEN f.kind[id] ELSE undefined,
             kids |-> Kids(f.thread, id)]
  ELSE IF ReplyKind(f, id) = NULL THEN NullItem
  ELSE [id |-> id, type |-> ReplyKind(f, id), time |-> id * SecondsPerHour,
        url |-> undefined, kids |-> Kids(f.thread, id),
        parent |-> Parent(f.thread, id)]

(***************************************************************************)
(* Forum API client as the fetch service sees it: a call either returns    *)
(* the served body or throws once its attempts are used up.                *)
(***************************************************************************)
fetchItem(id) ==
  IF id \in down
  THEN [ok |-> FALSE, item |-> NullItem]
  ELSE [ok |-> TRUE, item |-> HnItem(feed, id)]

fetchNewStories ==
  IF ListEndpoint \in down
  THEN [ok |-> FALSE, ids |-> <<>>]
  ELSE [ok |-> TRUE, ids |-> NewStoriesList]

(***************************************************************************)
(* Thread traversal.                                                       *)
(***************************************************************************)
\* The for loop of fetchComments is the recursion on Tail(commentIds); a
\* failed fetchItem is caught (logged on the console) and the loop goes on
\* with the next id.  comments is the array returned, requested the ids
\* passed to fetchItem, in order.
NoComments == [comments |-> <<>>, requested |-> <<>>]

\* Faulty variant: every item that is not null counts as a comment.
RECURSIVE fetchCommentsOfAnyType(_, _, _)
fetchCommentsOfAnyType(commentIds, depth, maxDepth) ==
  IF depth >= maxDepth \/ Len(commentIds) = 0
  THEN NoComments
  ELSE LET commentId == Head(commentIds)
           r == fetchItem(commentId)
           comment == r.item
           replies ==
             IF r.ok /\ comment.type # NULL /\ Len(comment.kids) > 0
             THEN fetchCommentsOfAnyType(comment.kids, depth + 1, maxDepth)
             ELSE NoComments
           fetched ==
             IF r.ok /\ comment.type # NULL
             THEN <<comment>> \o replies.comments
             ELSE <<>>
           rest == fetchCommentsOfAnyType(Tail(commentIds), depth, maxDepth)
       IN  [comments |-> fetched \o rest.comments,
            requested |-> <<commentId>> \o replies.requested \o rest.requested]

RECURSIVE fetchComments(_, _, _)
fetchComments(commentIds, depth, maxDepth) ==
  IF depth >= maxDepth \/ Len(commentIds) = 0
  THEN NoComments
  ELSE LET commentId == Head(commentIds)
           r == fetchItem(commentId)
           comment == r.item
           replies ==
             IF r.ok /\ comment.type # NULL /\ comment.type = "comment"
                /\ Len(comment.kids) > 0
             THEN fetchComments(comment.kids, depth + 1, maxDepth)
             ELSE NoComments
           fetched ==
             IF r.ok /\ comment.type # NULL /\ comment.type = "comment"
             THEN <<comment>> \o replies.comments
             ELSE <<>>
           rest == fetchComments(Tail(commentIds), depth, maxDepth)
       IN  [comments |-> fetched \o rest.comments,
            requested |-> <<commentId>> \o replies.requested \o rest.requested]

(***************************************************************************)
(* Selection of the story ids to process.                                  *)
(***************************************************************************)
SubSeqTo(seq, n) == SubSeq(seq, 1, IF n < Len(seq) THEN n ELSE Len(seq))

\* Faulty variant: an item posted exactly at the cutoff is not selected.
RECURSIVE ScanWindowStrict(_, _)
ScanWindowStrict(storyIds, cutoffTime) ==
  IF Len(storyIds) = 0 THEN [filtered |-> <<>>, fetched |-> <<>>]
  ELSE LET storyId == Head(storyIds)
           r == fetchItem(storyId)
           story == r.item
           rest == ScanWindowStrict(Tail(storyIds), cutoffTime)
       IN  IF ~r.ok
           THEN [rest EXCEPT !.fetched = <<storyId>> \o @]
           ELSE IF story.type # NULL /\ story.time > cutoffTime
           THEN [filtered |-> <<storyId>> \o rest.filtered,
                 fetched |-> <<storyId>> \o rest.fetched]
           ELSE IF story.type # NULL /\ story.time < cutoffTime
           THEN [filtered |-> <<>>, fetched |-> <<storyId>>]
           ELSE [rest EXCEPT !.fetched = <<storyId>> \o @]

\* The scan of the time window (lines 132-150, and 154-171 for the default
\* window): keep the ids whose item is at least as recent as the cutoff,
\* stop at the first older item, skip null items and failed fetches.
\* filtered is the array returned, fetched the ids passed to fetchItem.
RECURSIVE ScanWindow(_, _)
ScanWindow(storyIds, cutoffTime) ==
  IF Len(storyIds) = 0 THEN [filtered |-> <<>>, fetched |-> <<>>]
  ELSE LET storyId == Head(storyIds)
           r == fetchItem(storyId)
           story == r.item
           rest == ScanWindow(Tail(storyIds), cutoffTime)
       IN  IF ~r.ok
           THEN [rest EXCEPT !.fetched = <<storyId>> \o @]
           ELSE IF story.type # NULL /\ story.time >= cutoffTime
           THEN [filtered |-> <<storyId>> \o rest.filtered,
                 fetched |-> <<storyId>> \o rest.fetched]
           ELSE IF story.type # NULL /\ story.time < cutoffTime
           THEN [filtered |-> <<>>, fetched |-> <<storyId>>]
           ELSE [rest EXCEPT !.fetched = <<storyId>> \o @]

CutoffTime(hours) == NowSeconds - hours * SecondsPerHour

\* Faulty variant: hours is looked at before count.
filterStoryIdsHoursFirst(storyIds, options) ==
  IF "hours" \in DOMAIN options
  THEN ScanWindow(storyIds, CutoffTime(options.hours))
  ELSE IF "count" \in DOMAIN options
  THEN [filtered |-> SubSeqTo(storyIds, options.count), fetched |-> <<>>]
  ELSE ScanWindow(storyIds, CutoffTime(DefaultHours))

filterStoryIds(storyIds, options) ==
  IF "count" \in DOMAIN options
  THEN [filtered |-> SubSeqTo(storyIds, options.count), fetched |-> <<>>]
  ELSE IF "hours" \in DOMAIN options
  THEN ScanWindow(storyIds, CutoffTime(options.hours))
  ELSE ScanWindow(storyIds, CutoffTime(DefaultHours))

(***************************************************************************)
(* Storage operations of the fetch service.                                *)
(***************************************************************************)
\* Faulty variant: the existence lookup never finds the row.
storyExistsNever(stories, storyId) == FALSE

storyExists(stories, storyId) == storyId \in DOMAIN stories

commentExists(comments, commentId) == commentId \in DOMAIN comments

\* value ?? null
OrNull(value) == IF value = undefined THEN NULL ELSE value

\* Faulty variant: a row that exists is left as it is.
persistStoryCreateOnly(stories, story) ==
  IF story.id \in DOMAIN stories
  THEN stories
  ELSE stories @@ (story.id :>
          [id |-> story.id, url |-> OrNull(story.url), time |-> story.time,
           createdAt |-> Cardinality(DOMAIN stories) + 1, updated |-> FALSE])

\* prisma.hnStory.upsert: the update branch leaves id and time alone.
\* createdAt is the position of the row in creation order.
persistStory(stories, story) ==
  IF story.id \in DOMAIN stories
  THEN [stories EXCEPT ![story.id] =
          [@ EXCEPT !.url = OrNull(story.url), !.updated = TRUE]]
  ELSE stories @@ (story.id :>
          [id |-> story.id, url |-> OrNull(story.url), time |-> story.time,
           createdAt |-> Cardinality(DOMAIN stories) + 1, updated |-> FALSE])

\* Faulty variant: a new row is filed under the parent of the reply.
persistCommentUnderParent(comments, comment, storyId) ==
  IF comment.id \in DOMAIN comments
  THEN [comments EXCEPT ![comment.id] =
          [@ EXCEPT !.parent = comment.parent, !.updated = TRUE]]
  ELSE comments @@ (comment.id :>
          [id |-> comment.id, parent |-> comment.parent,
           storyId |-> comment.parent, time |-> comment.time,
           updated |-> FALSE])

\* prisma.hnComment.upsert: the update branch leaves id, time and storyId alone.
persistComment(comments, comment, storyId) ==
  IF comment.id \in DOMAIN comments
  THEN [comments EXCEPT ![comment.id] =
          [@ EXCEPT !.parent = comment.parent, !.updated = TRUE]]
  ELSE comments @@ (comment.id :>
          [id |-> comment.id, parent |-> comment.parent, storyId |-> storyId,
           time |-> comment.time, updated |-> FALSE])

\* The loop over the fetched comments of one story: skip the ones that
\* already have a row.
RECURSIVE persistComments(_, _, _)
persistComments(comments, fetched, storyId) ==
  IF Len(fetched) = 0 THEN comments
  ELSE IF commentExists(comments, Head(fetched).id)
       THEN persistComments(comments, Tail(fetched), storyId)
       ELSE persistComments(persistComment(comments, Head(fetched), storyId),
                            Tail(fetched), storyId)

\* Faulty variant: the lookup ignores the url and finds any row.
findArticleAny(articles, url) == {articles[i] : i \in 1..Len(articles)}

\* prisma.scrapedArticle.findUnique({ where: { url } }): the set holding
\* the row, empty when the result is null.
findArticleByUrl(articles, url) ==
  {articles[i] : i \in {j \in 1..Len(articles) : articles[j].url = url}}

\* The unique indexes ScrapedArticle_url_key and ScrapedArticle_storyId_key.
UniqueViolation(articles, url, storyId) ==
  \E i \in 1..Len(articles) :
     articles[i].url = url \/ articles[i].storyId = storyId

\* Faulty variant: the new row references the wrong story.
createArticleWrongStory(articles, url, storyId) ==
  [id |-> Len(articles) + 1, url |-> url, storyId |-> storyId + 1,
   status |-> "pending", title |-> NULL, content |-> NULL, error |-> NULL]

\* The row prisma.scrapedArticle.create inserts: serial id, status
\* "pending", the other columns null.
createArticle(articles, url, storyId) ==
  [id |-> Len(articles) + 1, url |-> url, storyId |-> storyId,
   status |-> "pending", title |-> NULL, content |-> NULL, error |-> NULL]

(***************************************************************************)
(* Records of the calls of the other stages.                               *)
(***************************************************************************)
\* result is the ScrapeResult of the job processed last.  invoked lists the
\* jobs scrapeUrl was called for, raised holds the jobs whose processing
\* raised an exception, delayed tells whether delay(1000) has run since the
\* last scrapeUrl call.  status "threw": the call rejected.
IdleScrape ==
  [status |-> "idle", pendingArticles |-> <<>>, next |-> 1,
   stats |-> [success |-> 0, failed |-> 0, skipped |-> 0],
   result |-> [success |-> FALSE, title |-> NULL, content |-> NULL,
               error |-> NULL],
   invoked |-> <<>>, raised |-> {}, delayed |-> FALSE]

\* limit is the argument of the call: <<>> when undefined, else <<n>>.
IdleEmbed ==
  [status |-> "idle", articles |-> <<>>, next |-> 1, limit |-> <<>>,
   stats |-> [processed |-> 0, embeddings |-> 0, errors |-> 0]]

\* The record kept of a processArticle call: its argument and outcome, the
\* number of rows it inserted, and whether the call before it was made on
\* the same article and returned normally.
NoEmbedCall ==
  [articleId |-> 0, threw |-> FALSE, returned |-> 0, inserted |-> 0,
   repeated |-> FALSE]

(***************************************************************************)
(* fetchAndPersistStories: one call is StartFetch, one ProcessStory per    *)
(* selected id, then FinishFetch.                                          *)
(***************************************************************************)
EmptyResult == [stories |-> <<>>, comments |-> <<>>, skipped |-> 0, errors |-> <<>>]

\* storyIds, maxCommentDepth, next and result are the locals of the call;
\* newStories and newComments record the rows it created, requested the ids
\* it passed to fetchItem.
IdleFetch ==
  [status |-> "idle", storyIds |-> <<>>, maxCommentDepth |-> Infinity,
   next |-> 1, result |-> EmptyResult, newStories |-> {}, newComments |-> {},
   requested |-> <<>>]

\* What is remembered of the completed call before the current one, when
\* the current call repeats it (same selection, same endpoints failing):
\* the stories it persisted.
\* killed: the call before the current one was terminated.
NoPrevFetch == [repeated |-> FALSE, stories |-> {}, killed |-> FALSE]

Range(seq) == {seq[i] : i \in 1..Len(seq)}

SeqMap(Op(_), seq) == [i \in 1..Len(seq) |-> Op(seq[i])]

ItemId(item) == item.id

\* At most one endpoint is failing during a call: the list of new stories,
\* the item of a listed id, or the item of the first reply.
Endpoints == StoryIds \cup {ListEndpoint, FirstReply}

FailingChoices == {{}} \cup {{e} : e \in Endpoints}

\* FetchOptions values a caller passes: a count, nothing (the default time
\* window), and an optional maxCommentDepth.
FetchOptionChoices ==
  {[count |-> 1], [count |-> MaxStories], <<>>,
   [count |-> MaxStories, maxCommentDepth |-> 1]}

MaxCommentDepth(options) ==
  IF "maxCommentDepth" \in DOMAIN options THEN options.maxCommentDepth ELSE Infinity

\* Lines 290-303: list the new stories, select, start with an empty result.
\* A failure of fetchNewStories is thrown to the caller.
StartedFetch(options) ==
  LET allStoryIds == fetchNewStories
  IN  IF allStoryIds.ok
      THEN LET selection == filterStoryIds(allStoryIds.ids, options)
           IN  [IdleFetch EXCEPT !.status = "running",
                  !.storyIds = selection.filtered,
                  !.requested = selection.fetched,
                  !.maxCommentDepth = MaxCommentDepth(options)]
      ELSE [IdleFetch EXCEPT !.status = "failed"]

\* failing is the set of endpoints that fail during this call.
StartFetch(options, failing) ==
  /\ fetchRun.status # "running"
  /\ scrapeRun.status # "running"
  /\ embedRun.status # "running"
  /\ down' = failing
  /\ scrapeRun' = IdleScrape
  /\ embedRun' = IdleEmbed
  /\ UNCHANGED <<extractCall, fetcher, traversal, chunkCall, worker, generator, task, persistCall, robots, filterCall, httpCall, feed, hnStory, hnComment, scrapedArticle, embedding,
                 embedCall>>
  /\ fetchRun' = StartedFetch(options)'
  /\ prevFetch' = IF /\ fetchRun.status = "done"
                     /\ fetchRun'.status = "running"
                     /\ fetchRun'.storyIds = fetchRun.storyIds
                     /\ failing = down
                  THEN [repeated |-> TRUE,
                        stories |-> Range(fetchRun.result.stories),
                        killed |-> FALSE]
                  ELSE [NoPrevFetch EXCEPT
                          !.killed = fetchRun.status = "killed"]

\* The body of the loop over storyIds (lines 305-378) for the next id.  A
\* create the unique indexes reject throws: the catch records the error, the
\* story stays persisted and its comments are not fetched.  While the
\* database is unreachable storyExists throws, and the catch records that.
ProcessStory ==
  /\ fetchRun.status = "running"
  /\ fetchRun.next <= Len(fetchRun.storyIds)
  /\ LET storyId == fetchRun.storyIds[fetchRun.next]
         result == fetchRun.result
         r == fetchItem(storyId)
         story == r.item
         advanced == [fetchRun EXCEPT !.next = @ + 1]
     IN  IF StorageEndpoint \in down
         THEN /\ fetchRun' = [advanced EXCEPT
                                 !.result.errors =
                                    Append(@, [id |-> storyId, error |-> StorageError])]
              /\ UNCHANGED <<hnStory, hnComment, scrapedArticle>>
         ELSE IF storyExists(hnStory, storyId)
         THEN /\ fetchRun' = [advanced EXCEPT !.result.skipped = @ + 1]
              /\ UNCHANGED <<hnStory, hnComment, scrapedArticle>>
         ELSE IF ~r.ok
         THEN /\ fetchRun' = [advanced EXCEPT
                                 !.requested = Append(@, storyId),
                                 !.result.errors =
                                    Append(@, [id |-> storyId, error |-> "fetch failed"])]
              /\ UNCHANGED <<hnStory, hnComment, scrapedArticle>>
         ELSE IF story.type # "story"
         THEN /\ fetchRun' = [advanced EXCEPT !.requested = Append(@, storyId)]
              /\ UNCHANGED <<hnStory, hnComment, scrapedArticle>>
         ELSE LET create == story.url # undefined
                            /\ findArticleByUrl(scrapedArticle, story.url) = {}
                  rejected == create /\ UniqueViolation(scrapedArticle,
                                                        story.url, story.id)
                  thread ==
                    IF Len(story.kids) > 0 /\ ~rejected
                    THEN fetchComments(story.kids, 0, fetchRun.maxCommentDepth)
                    ELSE NoComments
                  comments == thread.comments
              IN  /\ hnStory' = persistStory(hnStory, story)
                  /\ scrapedArticle' =
                       IF create /\ ~rejected
                       THEN Append(scrapedArticle,
                                   createArticle(scrapedArticle, story.url, story.id))
                       ELSE scrapedArticle
                  /\ hnComment' = persistComments(hnComment, comments, storyId)
                  /\ fetchRun' =
                       [advanced EXCEPT
                          !.requested = Append(@, storyId) \o thread.requested,
                          !.result.stories = Append(@, story.id),
                          !.result.comments = @ \o SeqMap(ItemId, comments),
                          !.result.errors =
                             IF rejected
                             THEN Append(@, [id |-> storyId,
                                             error |-> "Unique constraint failed"])
                             ELSE @,
                          !.newStories = @ \cup (DOMAIN hnStory' \ DOMAIN hnStory),
                          !.newComments = @ \cup (DOMAIN hnComment' \ DOMAIN hnComment)]
  /\ UNCHANGED <<extractCall, fetcher, traversal, chunkCall, worker, generator, task, persistCall, robots, filterCall, httpCall, feed, down, prevFetch, embedding, scrapeRun, embedRun,
                 embedCall>>

\* The process is terminated inside the loop body of a new story, after a
\* storage write and before the next one: after persistStory, after the
\* create of the job, or after the first persistComment.
KillPoints == {"after-story", "after-article", "after-comment"}

KillFetch(point) ==
  /\ fetchRun.status = "running"
  /\ fetchRun.next <= Len(fetchRun.storyIds)
  /\ StorageEndpoint \notin down
  /\ LET storyId == fetchRun.storyIds[fetchRun.next]
         r == fetchItem(storyId)
         story == r.item
     IN  /\ ~storyExists(hnStory, storyId)
         /\ r.ok
         /\ story.type = "story"
         /\ LET create == story.url # undefined
                           /\ findArticleByUrl(scrapedArticle, story.url) = {}
                           /\ ~UniqueViolation(scrapedArticle, story.url, story.id)
                 thread ==
                   IF Len(story.kids) > 0
                   THEN fetchComments(story.kids, 0, fetchRun.maxCommentDepth)
                   ELSE NoComments
                 toWrite == SelectSeq(thread.comments,
                              LAMBDA c : ~commentExists(hnComment, c.id))
             IN  /\ point = "after-story" => create \/ Len(toWrite) >= 1
                 /\ point = "after-article" => create /\ Len(toWrite) >= 1
                 /\ point = "after-comment" => Len(toWrite) >= 2
                 /\ hnStory' = persistStory(hnStory, story)
                 /\ scrapedArticle' =
                      IF create /\ point # "after-story"
                      THEN Append(scrapedArticle,
                                  createArticle(scrapedArticle, story.url, story.id))
                      ELSE scrapedArticle
                 /\ hnComment' =
                      IF point = "after-comment"
                      THEN persistComment(hnComment, toWrite[1], storyId)
                      ELSE hnComment
                 /\ fetchRun' =
                      [fetchRun EXCEPT
                         !.status = "killed",
                         !.requested =
                            IF point = "after-comment"
                            THEN Append(@, storyId) \o thread.requested
                            ELSE Append(@, storyId),
                         !.newStories = @ \cup {storyId},
                         !.newComments =
                            @ \cup (DOMAIN hnComment' \ DOMAIN hnComment)]
  /\ UNCHANGED <<extractCall, fetcher, traversal, chunkCall, worker, generator, task, persistCall, robots, filterCall, httpCall, feed, down, prevFetch, embedding, scrapeRun, embedRun,
                 embedCall>>

\* Line 380: return result.
FinishFetch ==
  /\ fetchRun.status = "running"
  /\ fetchRun.next > Len(fetchRun.storyIds)
  /\ fetchRun' = [fetchRun EXCEPT !.status = "done"]
  /\ UNCHANGED <<extractCall, fetcher, traversal, chunkCall, worker, generator, task, persistCall, robots, filterCall, httpCall, feed, down, hnStory, hnComment, scrapedArticle, prevFetch,
                 embedding, scrapeRun, embedRun, embedCall>>

(***************************************************************************)
(* Article extractor as the scheduler sees it: scrapeUrl returns a         *)
(* ScrapeResult.  site is what the remote host does during the call.       *)
(***************************************************************************)
ScrapeResult(success, title, content, error) ==
  [success |-> success, title |-> title, content |-> content, error |-> error]

\* Text is kept as the sequence of its characters.  String.prototype.trim
\* removes the white space at both ends.
WhiteSpace == {" ", "\n"}

RECURSIVE trimStart(_)
trimStart(text) ==
  IF text # <<>> /\ Head(text) \in WhiteSpace THEN trimStart(Tail(text))
  ELSE text

RECURSIVE trimEnd(_)
trimEnd(text) ==
  IF text # <<>> /\ text[Len(text)] \in WhiteSpace
  THEN trimEnd(SubSeq(text, 1, Len(text) - 1))
  ELSE text

trim(text) == trimEnd(trimStart(text))

\* content.split("\n"): the lines, one more than there are line feeds.
\* lines holds the lines read so far, the last one still open.
RECURSIVE splitInto(_, _)
splitInto(lines, text) ==
  IF text = <<>> THEN lines
  ELSE IF Head(text) = "\n"
  THEN splitInto(Append(lines, <<>>), Tail(text))
  ELSE splitInto([lines EXCEPT ![Len(lines)] = Append(@, Head(text))],
                 Tail(text))

split(text) == splitInto(<< <<>> >>, text)

\* lines.join("\n")
RECURSIVE join(_)
join(lines) ==
  IF Len(lines) = 0 THEN <<>>
  ELSE IF Len(lines) = 1 THEN lines[1]
  ELSE lines[1] \o <<"\n">> \o join(Tail(lines))

\* The characters as one string value.
RECURSIVE String(_)
String(text) == IF text = <<>> THEN "" ELSE Head(text) \o String(Tail(text))

\* A loaded document: the content attributes of the og:title and
\* twitter:title metas (a set, empty when the attribute is undefined), the
\* text of the title element, and the elements of the body in document
\* order, each with its tag (or its role) and its text.
Document(ogTitle, twitterTitle, titleTag, elements) ==
  [ogTitle |-> ogTitle, twitterTitle |-> twitterTitle, titleTag |-> titleTag,
   elements |-> elements]

Element(tag, text) == [tag |-> tag, text |-> text]

\* The selector of line 35.
RemovedElements ==
  {"script", "style", "nav", "header", "footer", "aside", "iframe", "noscript",
   "[role='navigation']", "[role='banner']", "[role='complementary']"}

\* $(selector) on the elements that are left.
Select(elements, selector) ==
  SelectSeq(elements, LAMBDA e : e.tag = selector)

\* selection.first()
First(selection) ==
  IF Len(selection) = 0 THEN <<>> ELSE <<selection[1]>>

\* .text() of a selection: the texts of its elements, concatenated.
RECURSIVE TextOf(_)
TextOf(elements) ==
  IF Len(elements) = 0 THEN <<>>
  ELSE Head(elements).text \o TextOf(Tail(elements))

\* Faulty variant: main is looked for before article.
contentElementMainFirst(elements) ==
  IF Len(Select(elements, "main")) > 0
  THEN First(Select(elements, "main"))
  ELSE IF Len(Select(elements, "article")) > 0
  THEN First(Select(elements, "article"))
  ELSE IF Len(Select(elements, "[role='main']")) > 0
  THEN First(Select(elements, "[role='main']"))
  ELSE elements

\* Lines 57-69: the first article, else the first main, else the first
\* element of role main, else the body.
contentElement(elements) ==
  IF Len(Select(elements, "article")) > 0
  THEN First(Select(elements, "article"))
  ELSE IF Len(Select(elements, "main")) > 0
  THEN First(Select(elements, "main"))
  ELSE IF Len(Select(elements, "[role='main']")) > 0
  THEN First(Select(elements, "[role='main']"))
  ELSE elements

\* Lines 33-86 on a loaded document.  title and content are sets: empty for
\* null, else holding the text.
extractDocument(doc) ==
  LET elements ==
        SelectSeq(doc.elements, LAMBDA e : e.tag \notin RemovedElements)
      titleTag == doc.titleTag
      h1Tag == TextOf(First(Select(elements, "h1")))
      title ==
        IF \E t \in doc.ogTitle : Len(t) > 0 THEN doc.ogTitle
        ELSE IF \E t \in doc.twitterTitle : Len(t) > 0 THEN doc.twitterTitle
        ELSE IF Len(titleTag) > 0 THEN {titleTag}
        ELSE IF Len(h1Tag) > 0 THEN {h1Tag}
        ELSE {}
      content ==
        join(SelectSeq(SeqMap(trim, split(TextOf(contentElement(elements)))),
                       LAMBDA line : Len(line) > 0))
  IN  [title |-> {trim(t) : t \in title},
       content |-> IF Len(content) > 0 THEN {content} ELSE {}]

\* cheerio.load for the pages the hosts serve.
load(html) ==
  IF html = "<article>Hello <b>World</b></article>"
  THEN Document({}, {}, <<>>,
         <<Element("article",
                   <<"H", "e", "l", "l", "o", " ", "W", "o", "r", "l", "d">>)>>)
  ELSE IF html = "<title>T</title><main>One. Two.</main>"
  THEN Document({}, {}, <<"T">>,
         <<Element("main", <<"O", "n", "e", ".", " ", "T", "w", "o", ".">>)>>)
  ELSE Document({}, {}, <<>>, <<Element("script", <<"x">>)>>)

\* extractContent on the html of a page: the title and the content as
\* strings, or null.
extractContent(html) ==
  LET extracted == extractDocument(load(html))
      StringOrNull(value) ==
        IF value = {} THEN NULL ELSE String(CHOOSE t \in value : TRUE)
  IN  [title |-> StringOrNull(extracted.title),
       content |-> StringOrNull(extracted.content)]

HtmlPages ==
  {"<article>Hello <b>World</b></article>",
   "<title>T</title><main>One. Two.</main>",
   "<body><script>x</script></body>"}

\* Outcomes of scrapeUrl: robots.txt denies the URL, the attempts end on an
\* HTTP error, or a page is extracted.
SiteChoices ==
  {[kind |-> "blocked"], [kind |-> "http-error"]}
  \cup {[kind |-> "html", html |-> h] : h \in HtmlPages}

scrapeUrlResult(site) ==
  IF site.kind = "blocked"
  THEN ScrapeResult(FALSE, NULL, NULL, "Blocked by robots.txt")
  ELSE IF site.kind = "http-error"
  THEN ScrapeResult(FALSE, NULL, NULL, "HTTP 404: Not Found")
  ELSE LET extracted == extractContent(site.html)
       IN  ScrapeResult(TRUE, extracted.title, extracted.content, NULL)

(***************************************************************************)
(* scrapeAndPersistArticles: StartScrape, one ScrapeArticle per selected   *)
(* job, then FinishScrape.                                                 *)
(***************************************************************************)
IsPending(article) == article.status = "pending"

Take(seq, limit) == IF limit = <<>> THEN seq ELSE SubSeqTo(seq, limit[1])

\* findMany({ where: { status: "pending" }, take: limit, orderBy:
\* { createdAt: "asc" } }); limit is <<>> when undefined, else <<n>>.  The
\* loop reads only id and url of the rows found, and url never changes: the
\* result is kept as the list of ids.
\* Faulty variant: the selection has no where clause.
findArticlesOfAnyStatus(articles, limit) ==
  SeqMap(ItemId, Take(articles, limit))

findPendingArticles(articles, limit) ==
  SeqMap(ItemId, Take(SelectSeq(articles, IsPending), limit))

LimitChoices == {<<>>, <<1>>}

StartScrape(limit) ==
  /\ fetchRun.status # "running"
  /\ scrapeRun.status # "running"
  /\ embedRun.status # "running"
  /\ scrapeRun' = [IdleScrape EXCEPT !.status = "running",
                     !.pendingArticles = findPendingArticles(scrapedArticle, limit)]
  /\ fetchRun' = IdleFetch
  /\ prevFetch' = NoPrevFetch
  /\ embedRun' = IdleEmbed
  /\ UNCHANGED <<extractCall, fetcher, traversal, chunkCall, worker, generator, task, persistCall, robots, filterCall, httpCall, feed, down, hnStory, hnComment, scrapedArticle, embedding,
                 embedCall>>

\* prisma.scrapedArticle.update({ where: { id }, data })
updateArticle(articles, id, data) ==
  [articles EXCEPT ![id] =
     [f \in DOMAIN @ |-> IF f \in DOMAIN data THEN data[f] ELSE @[f]]]

\* Faulty variant: the success branch does not store the extracted content.
writeBackNoContent(articles, id, result) ==
  IF result.success
  THEN updateArticle(articles, id,
         [title |-> result.title, status |-> "success", error |-> NULL])
  ELSE updateArticle(articles, id,
         [status |-> "failed", error |-> result.error])

\* Faulty variant: a failure is recorded under a status of its own.
writeBackErrorStatus(articles, id, result) ==
  IF result.success
  THEN updateArticle(articles, id,
         [title |-> result.title, content |-> result.content,
          status |-> "success", error |-> NULL])
  ELSE updateArticle(articles, id,
         [status |-> "error", error |-> result.error])

\* What the loop body writes for a ScrapeResult (lines 211-237).
writeBack(articles, id, result) ==
  IF result.success
  THEN updateArticle(articles, id,
         [title |-> result.title, content |-> result.content,
          status |-> "success", error |-> NULL])
  ELSE updateArticle(articles, id,
         [status |-> "failed", error |-> result.error])

\* What the database does with the update calls of one loop body: it
\* performs them, it rejects the one in the try block, or it rejects that
\* one and the one in the catch block as well.
StorageChoices == {"ok", "update-fails", "updates-fail"}

\* The body of the loop over pendingArticles (lines 205-257) for the next
\* job.  delay(1000) is the last statement of the try block; the catch block
\* writes the failure with an update of its own, outside any try.
ScrapeArticle(site, storage) ==
  /\ scrapeRun.status = "running"
  /\ scrapeRun.next <= Len(scrapeRun.pendingArticles)
  /\ LET articleId == scrapeRun.pendingArticles[scrapeRun.next]
         result == scrapeUrlResult(site)
         called == [scrapeRun EXCEPT !.invoked = Append(@, articleId),
                                     !.result = result]
     IN  IF storage = "ok"
         THEN /\ scrapedArticle' = writeBack(scrapedArticle, articleId, result)
              /\ scrapeRun' =
                   [called EXCEPT
                      !.next = @ + 1,
                      !.stats.success = IF result.success THEN @ + 1 ELSE @,
                      !.stats.failed = IF result.success THEN @ ELSE @ + 1,
                      !.delayed = TRUE]
         ELSE IF storage = "update-fails"
         THEN /\ scrapedArticle' =
                   updateArticle(scrapedArticle, articleId,
                     [status |-> "failed", error |-> StorageError])
              /\ scrapeRun' =
                   [called EXCEPT
                      !.next = @ + 1,
                      !.stats.failed = @ + 1,
                      !.raised = @ \cup {articleId},
                      !.delayed = FALSE]
         ELSE /\ scrapedArticle' = scrapedArticle
              /\ scrapeRun' =
                   [called EXCEPT
                      !.status = "threw",
                      !.raised = @ \cup {articleId},
                      !.delayed = FALSE]
  /\ UNCHANGED <<extractCall, fetcher, traversal, chunkCall, worker, generator, task, persistCall, robots, filterCall, httpCall, feed, down, hnStory, hnComment, fetchRun, prevFetch,
                 embedding, embedRun, embedCall>>

FinishScrape ==
  /\ scrapeRun.status = "running"
  /\ scrapeRun.next > Len(scrapeRun.pendingArticles)
  /\ scrapeRun' = [scrapeRun EXCEPT !.status = "done"]
  /\ UNCHANGED <<extractCall, fetcher, traversal, chunkCall, worker, generator, task, persistCall, robots, filterCall, httpCall, feed, down, hnStory, hnComment, scrapedArticle, fetchRun,
                 prevFetch, embedding, embedRun, embedCall>>

(***************************************************************************)
(* Chunker.                                                                *)
(***************************************************************************)
\* RecursiveCharacterTextSplitter.splitText for the texts of the model: the
\* paragraph splitter keeps them whole, the sentence splitter cuts the
\* two-sentence text in two.
splitText(splitter, text) ==
  IF splitter = "sentence" /\ text = "One. Two."
  THEN <<"One.", "Two.">>
  ELSE <<text>>

\* Faulty variant: the positions are counted from 1.
TextChunksFromOne(pieces, chunkType) ==
  [i \in 1..Len(pieces) |->
     [content |-> pieces[i], chunkType |-> chunkType, index |-> i,
      totalChunks |-> Len(pieces)]]

TextChunks(pieces, chunkType) ==
  [i \in 1..Len(pieces) |->
     [content |-> pieces[i], chunkType |-> chunkType, index |-> i - 1,
      totalChunks |-> Len(pieces)]]

\* chunkText once the two splitters have answered: paragraphChunks and
\* sentenceChunks are the arrays splitText returned.
chunkTextOf(text, paragraphChunks, sentenceChunks) ==
  <<[content |-> text, chunkType |-> "full", index |-> 0, totalChunks |-> 1]>>
  \o TextChunks(paragraphChunks, "paragraph")
  \o TextChunks(sentenceChunks, "sentence")

chunkText(text) ==
  chunkTextOf(text, splitText("paragraph", text), splitText("sentence", text))

\* A chunkText call on its own.  The splitter is a library: its answer is
\* any array of pieces, the empty one included.
MaxPieces == 2

Pieces == {"One.", "Two."}

PieceLists == UNION {[1..n -> Pieces] : n \in 0..MaxPieces}

ChunkTexts == {"", "Hello World", "One. Two."}

NoChunkCall == [text |-> NULL, paragraphChunks |-> <<>>,
                sentenceChunks |-> <<>>, chunks |-> <<>>]

CallChunkText(text, paragraphChunks, sentenceChunks) ==
  /\ chunkCall' = [text |-> text, paragraphChunks |-> paragraphChunks,
                   sentenceChunks |-> sentenceChunks,
                   chunks |-> chunkTextOf(text, paragraphChunks, sentenceChunks)]
  /\ UNCHANGED <<extractCall, fetcher, traversal, feed, down, hnStory, hnComment, scrapedArticle, fetchRun,
                 prevFetch, embedding, scrapeRun, embedRun, embedCall,
                 filterCall, httpCall, persistCall, robots, worker, generator,
                 task>>

(***************************************************************************)
(* Embedding processor.                                                    *)
(***************************************************************************)
\* Faulty variant: the count looks at no row.
countEmbeddingsNone(embeddings, articleId) == 0

\* prisma.embedding.count({ where: { articleId } })
countEmbeddings(embeddings, articleId) ==
  Cardinality({i \in 1..Len(embeddings) : embeddings[i].articleId = articleId})

EmbeddingRow(chunk, articleId) ==
  [content |-> chunk.content, chunkType |-> chunk.chunkType,
   index |-> chunk.index, totalChunks |-> chunk.totalChunks,
   articleId |-> articleId]

\* The loop over the chunks (lines 53-82): generate, insert, count.  failAt
\* is the position of the chunk whose generateEmbedding or INSERT throws (0:
\* none does); the rows inserted before it stay.
RECURSIVE storeChunks(_, _, _, _, _)
storeChunks(embeddings, chunks, articleId, failAt, embeddingsCreated) ==
  IF Len(chunks) = 0
  THEN [threw |-> FALSE, returned |-> embeddingsCreated, embedding |-> embeddings]
  ELSE IF failAt = embeddingsCreated + 1
  THEN [threw |-> TRUE, returned |-> 0, embedding |-> embeddings]
  ELSE storeChunks(Append(embeddings, EmbeddingRow(Head(chunks), articleId)),
                   Tail(chunks), articleId, failAt, embeddingsCreated + 1)

\* Faulty variant: the guard lets a call complete a partial set of rows.
processArticleResume(articles, embeddings, articleId, failAt) ==
  IF articleId \notin 1..Len(articles)
  THEN [threw |-> TRUE, returned |-> 0, embedding |-> embeddings]
  ELSE LET article == articles[articleId]
       IN  IF article.status # "success" \/ article.content = NULL
           THEN [threw |-> TRUE, returned |-> 0, embedding |-> embeddings]
           ELSE IF countEmbeddings(embeddings, articleId)
                     >= Len(chunkText(article.content))
           THEN [threw |-> FALSE, returned |-> 0, embedding |-> embeddings]
           ELSE storeChunks(embeddings, chunkText(article.content), articleId,
                            failAt, 0)

processArticle(articles, embeddings, articleId, failAt) ==
  IF articleId \notin 1..Len(articles)
  THEN [threw |-> TRUE, returned |-> 0, embedding |-> embeddings]
  ELSE LET article == articles[articleId]
       IN  IF article.status # "success" \/ article.content = NULL
           THEN [threw |-> TRUE, returned |-> 0, embedding |-> embeddings]
           ELSE IF countEmbeddings(embeddings, articleId) > 0
           THEN [threw |-> FALSE, returned |-> 0, embedding |-> embeddings]
           ELSE storeChunks(embeddings, chunkText(article.content), articleId,
                            failAt, 0)

EmbedCall(articleId, outcome) ==
  [articleId |-> articleId, threw |-> outcome.threw,
   returned |-> outcome.returned,
   inserted |-> Len(outcome.embedding) - Len(embedding),
   repeated |-> embedCall.articleId = articleId /\ ~embedCall.threw]

FailAtChoices == 0..2

\* A direct call of the exported processArticle.
CallProcessArticle(articleId, failAt) ==
  /\ fetchRun.status # "running"
  /\ scrapeRun.status # "running"
  /\ embedRun.status # "running"
  /\ LET outcome == processArticle(scrapedArticle, embedding, articleId, failAt)
     IN  /\ embedding' = outcome.embedding
         /\ embedCall' = EmbedCall(articleId, outcome)
  /\ UNCHANGED <<extractCall, fetcher, traversal, chunkCall, worker, generator, task, persistCall, robots, filterCall, httpCall, feed, down, hnStory, hnComment, scrapedArticle, fetchRun,
                 prevFetch, scrapeRun, embedRun>>

(***************************************************************************)
(* processAllArticles: StartEmbed, one EmbedArticle per selected article,  *)
(* then FinishEmbed.                                                       *)
(***************************************************************************)
\* findMany({ where: { status: "success", content: { not: null },
\* embeddings: { none: {} } }, take: limit, orderBy: { createdAt: "asc" } }),
\* kept as the list of ids (the loop reads only article.id).
\* Faulty variant: the where clause has no condition on the embeddings.
findArticlesWithContent(articles, embeddings, limit) ==
  LET Selected(article) ==
        article.status = "success" /\ article.content # NULL
  IN  SeqMap(ItemId, Take(SelectSeq(articles, Selected), limit))

\* Faulty variant: the where clause has no condition on the content.
findArticlesSucceeded(articles, embeddings, limit) ==
  LET Selected(article) ==
        /\ article.status = "success"
        /\ countEmbeddings(embeddings, article.id) = 0
  IN  SeqMap(ItemId, Take(SelectSeq(articles, Selected), limit))

findArticlesToEmbed(articles, embeddings, limit) ==
  LET Selected(article) ==
        /\ article.status = "success"
        /\ article.content # NULL
        /\ countEmbeddings(embeddings, article.id) = 0
  IN  SeqMap(ItemId, Take(SelectSeq(articles, Selected), limit))

StartEmbed(limit) ==
  /\ fetchRun.status # "running"
  /\ scrapeRun.status # "running"
  /\ embedRun.status # "running"
  /\ embedRun' = [IdleEmbed EXCEPT !.status = "running", !.limit = limit,
                    !.articles = findArticlesToEmbed(scrapedArticle, embedding, limit)]
  /\ fetchRun' = IdleFetch
  /\ prevFetch' = NoPrevFetch
  /\ scrapeRun' = IdleScrape
  /\ UNCHANGED <<extractCall, fetcher, traversal, chunkCall, worker, generator, task, persistCall, robots, filterCall, httpCall, feed, down, hnStory, hnComment, scrapedArticle, embedding,
                 embedCall>>

\* The body of the loop over articles (lines 129-141) for the next article.
EmbedArticle(failAt) ==
  /\ embedRun.status = "running"
  /\ embedRun.next <= Len(embedRun.articles)
  /\ LET articleId == embedRun.articles[embedRun.next]
         outcome == processArticle(scrapedArticle, embedding, articleId, failAt)
     IN  /\ embedding' = outcome.embedding
         /\ embedCall' = EmbedCall(articleId, outcome)
         /\ embedRun' =
              [embedRun EXCEPT
                 !.next = @ + 1,
                 !.stats.processed = IF outcome.threw THEN @ ELSE @ + 1,
                 !.stats.embeddings = IF outcome.threw THEN @ ELSE @ + outcome.returned,
                 !.stats.errors = IF outcome.threw THEN @ + 1 ELSE @]
  /\ UNCHANGED <<extractCall, fetcher, traversal, chunkCall, worker, generator, task, persistCall, robots, filterCall, httpCall, feed, down, hnStory, hnComment, scrapedArticle, fetchRun,
                 prevFetch, scrapeRun>>

FinishEmbed ==
  /\ embedRun.status = "running"
  /\ embedRun.next > Len(embedRun.articles)
  /\ embedRun' = [embedRun EXCEPT !.status = "done"]
  /\ UNCHANGED <<extractCall, fetcher, traversal, chunkCall, worker, generator, task, persistCall, robots, filterCall, httpCall, feed, down, hnStory, hnComment, scrapedArticle, fetchRun,
                 prevFetch, embedding, scrapeRun, embedCall>>

(***************************************************************************)
(* persistStory and persistComment called on their own, on a table that    *)
(* has or has not a row for the id of the item.                            *)
(***************************************************************************)
TimeChoices == {h * SecondsPerHour : h \in 0..MaxStories}

\* Items to persist: story 1 with or without url, posted at any time, the
\* other stories without url.
PersistFeeds ==
  {[kind |-> [s \in StoryIds |-> IF s = 1 THEN k ELSE undefined],
    thread |-> th,
    time |-> [PostingTimes EXCEPT ![1] = t]] :
     k \in Urls \cup {undefined}, th \in Threads, t \in TimeChoices}

\* HnStory tables before the call: empty, or the row an earlier call created
\* for story 1.
StoredStories ==
  {<<>>} \cup
  {persistStory(<<>>, [id |-> 1, type |-> "story", time |-> t, url |-> u,
                       kids |-> <<>>]) :
     t \in TimeChoices, u \in Urls \cup {undefined}}

\* HnComment tables before the call: empty, or the row an earlier call
\* created for the first reply.
StoredComments ==
  {<<>>} \cup
  {persistComment(<<>>, [id |-> FirstReply, type |-> "comment", time |-> t,
                         url |-> undefined, kids |-> <<>>, parent |-> p], s) :
     t \in TimeChoices, p \in {1, SecondReply}, s \in StoryIds}

\* before holds the row the table had for the id of the item, if any.
NoPersistCall ==
  [op |-> "none", id |-> 0, item |-> NullItem, storyId |-> 0, before |-> {}]

RowOf(table, id) == IF id \in DOMAIN table THEN {table[id]} ELSE {}

persistOthers ==
  <<extractCall, fetcher, traversal, chunkCall, worker, generator, task, robots, filterCall, httpCall, feed, down, scrapedArticle, fetchRun,
    prevFetch, embedding, scrapeRun, embedRun, embedCall>>

CallPersistStory(story) ==
  /\ persistCall.op = "none"
  /\ hnStory' = persistStory(hnStory, story)
  /\ persistCall' = [op |-> "persistStory", id |-> story.id, item |-> story,
                     storyId |-> story.id,
                     before |-> RowOf(hnStory, story.id)]
  /\ UNCHANGED hnComment
  /\ UNCHANGED persistOthers

CallPersistComment(comment, storyId) ==
  /\ persistCall.op = "none"
  /\ hnComment' = persistComment(hnComment, comment, storyId)
  /\ persistCall' = [op |-> "persistComment", id |-> comment.id,
                     item |-> comment, storyId |-> storyId,
                     before |-> RowOf(hnComment, comment.id)]
  /\ UNCHANGED hnStory
  /\ UNCHANGED persistOthers

(***************************************************************************)
(* filterStoryIds called on its own: any items behind the ids of the       *)
(* list, in any order of time.                                             *)
(***************************************************************************)
ListIds == 1..MaxListLen

\* Items behind the list: a story or null, posted at any of the times.
FilterFeeds ==
  [kind : [ListIds -> {undefined, NULL}],
   thread : {"nested"},
   time : [ListIds -> TimeChoices]]

FilterFailingChoices == {{}} \cup {{id} : id \in ListIds}

FilterOptionChoices ==
  {[hours |-> h] : h \in 0..MaxStories}
  \cup {<<>>, [count |-> 1], [count |-> 1, hours |-> 1]}

NoFilterCall ==
  [called |-> FALSE, storyIds |-> <<>>, options |-> <<>>,
   filtered |-> <<>>, fetched |-> <<>>]

CallFilter(storyIds, options) ==
  /\ filterCall' =
       LET r == filterStoryIds(storyIds, options)
       IN  [called |-> TRUE, storyIds |-> storyIds, options |-> options,
            filtered |-> r.filtered, fetched |-> r.fetched]
  /\ UNCHANGED <<extractCall, fetcher, traversal, chunkCall, worker, generator, task, persistCall, robots, httpCall, feed, down, hnStory, hnComment, scrapedArticle,
                 fetchRun, prevFetch, embedding, scrapeRun, embedRun,
                 embedCall>>

(***************************************************************************)
(* The HTTP calls request by request: retryWithBackoff around the fetch of *)
(* fetchItem and fetchNewStories, and the attempt loop of scrapeUrl.  The  *)
(* remote endpoint answers the n-th request of a call with the n-th        *)
(* response of a script, and repeats the last one after that.              *)
(***************************************************************************)
DefaultMaxRetries == 3
BaseDelay == 1000

HtmlContentType == "text/html; charset=utf-8"
PdfContentType == "application/pdf"

HttpResponse(status, contentType) ==
  [status |-> status, contentType |-> contentType]

\* fetch() rejects (connection refused, timeout): no response at all.
NetworkError == HttpResponse(0, "")

Responses ==
  {HttpResponse(200, HtmlContentType), HttpResponse(200, PdfContentType),
   HttpResponse(400, HtmlContentType), HttpResponse(404, HtmlContentType),
   HttpResponse(500, HtmlContentType), HttpResponse(503, HtmlContentType),
   NetworkError}

Scripts == UNION {[1..n -> Responses] : n \in 1..MaxScript}

Response(script, n) == script[IF n <= Len(script) THEN n ELSE Len(script)]

\* response.ok
IsOk(response) == response.status >= 200 /\ response.status <= 299

\* `${response.status}: ${response.statusText}`
StatusText(status) ==
  IF status = 400 THEN "400: Bad Request"
  ELSE IF status = 404 THEN "404: Not Found"
  ELSE IF status = 500 THEN "500: Internal Server Error"
  ELSE "503: Service Unavailable"

\* contentType.includes("text/html")
IncludesTextHtml(contentType) == contentType = HtmlContentType

ServedHtml == "<title>T</title><main>One. Two.</main>"

\* What extractContent returns for the page served.
ServedExtract == extractContent(ServedHtml)

ApiOps == {"fetchItem", "fetchNewStories"}
HttpOps == ApiOps \cup {"scrapeUrl"}

MaxRetriesChoices == {1, DefaultMaxRetries}

NoResult == ScrapeResult(FALSE, NULL, NULL, NULL)

\* url and respectRobotsTxt are the arguments of scrapeUrl; allowed is what
\* its robots check answered, extracted whether extractContent was called.
IdleHttp ==
  [status |-> "idle", op |-> "none", script |-> <<>>, allowed |-> TRUE,
   url |-> "", respectRobotsTxt |-> TRUE, extracted |-> FALSE,
   maxRetries |-> DefaultMaxRetries, attempt |-> 0, requests |-> 0,
   delays |-> <<>>, lastError |-> NULL, result |-> NoResult]

RECURSIVE Pow2(_)
Pow2(n) == IF n = 0 THEN 1 ELSE 2 * Pow2(n - 1)

\* Faulty variant: the first failure is thrown, nothing is retried.
retryAttemptOnce(call, response) ==
  LET requested == [call EXCEPT !.requests = @ + 1]
  IN  IF response # NetworkError /\ IsOk(response)
      THEN [requested EXCEPT !.status = "returned"]
      ELSE [requested EXCEPT !.status = "threw",
                             !.lastError = "Failed to fetch"]

\* Faulty variant: every wait is baseDelay long.
retryAttemptFixedDelay(call, response) ==
  LET requested == [call EXCEPT !.requests = @ + 1]
  IN  IF response # NetworkError /\ IsOk(response)
      THEN [requested EXCEPT !.status = "returned"]
      ELSE LET failed ==
                 [requested EXCEPT
                    !.lastError =
                       IF response = NetworkError THEN "fetch failed"
                       ELSE "Failed to fetch: " \o StatusText(response.status)]
           IN  IF call.attempt < call.maxRetries
               THEN [failed EXCEPT !.delays = Append(@, BaseDelay),
                                   !.attempt = @ + 1]
               ELSE [failed EXCEPT !.attempt = @ + 1, !.status = "threw"]

\* One iteration of the loop of retryWithBackoff, fn being the body of
\* fetchItem or fetchNewStories: one request; a response that is not ok and
\* a rejected fetch both throw inside fn; the catch waits and goes round
\* again while attempt < maxRetries, and the error is thrown after the loop.
retryAttempt(call, response) ==
  LET requested == [call EXCEPT !.requests = @ + 1]
  IN  IF response # NetworkError /\ IsOk(response)
      THEN [requested EXCEPT !.status = "returned"]
      ELSE LET failed ==
                 [requested EXCEPT
                    !.lastError =
                       IF response = NetworkError THEN "fetch failed"
                       ELSE "Failed to fetch: " \o StatusText(response.status)]
           IN  IF call.attempt < call.maxRetries
               THEN [failed EXCEPT
                       !.delays = Append(@, BaseDelay * Pow2(call.attempt)),
                       !.attempt = @ + 1]
               ELSE [failed EXCEPT !.attempt = @ + 1, !.status = "threw"]

\* The return after the loop of scrapeUrl (lines 163-168).
scrapeFailure(call) ==
  [call EXCEPT !.status = "returned",
               !.result = ScrapeResult(FALSE, NULL, NULL, call.lastError)]

\* Faulty variant: a 4xx response is retried like a 5xx one.
scrapeAttemptRetry4xx(call, response) ==
  LET requested == [call EXCEPT !.requests = @ + 1]
      retried(c) ==
        IF call.attempt < call.maxRetries - 1
        THEN [c EXCEPT !.delays = Append(@, 1000 * Pow2(call.attempt)),
                       !.attempt = @ + 1]
        ELSE scrapeFailure([c EXCEPT !.attempt = @ + 1])
  IN  IF response = NetworkError
      THEN retried([requested EXCEPT !.lastError = "fetch failed"])
      ELSE IF ~IsOk(response)
      THEN retried([requested EXCEPT
                      !.lastError = "HTTP " \o StatusText(response.status)])
      ELSE IF ~IncludesTextHtml(response.contentType)
      THEN [requested EXCEPT
              !.status = "returned",
              !.result = ScrapeResult(FALSE, NULL, NULL,
                           "Unsupported content type: " \o response.contentType)]
      ELSE LET extracted == ServedExtract
           IN  [requested EXCEPT
                  !.status = "returned",
                  !.extracted = TRUE,
                  !.result = ScrapeResult(TRUE, extracted.title,
                                          extracted.content, NULL)]

\* One iteration of the loop of scrapeUrl (lines 98-161): one page request.
\* A response that is not ok sets lastError and breaks at once on 400..499,
\* otherwise waits and continues unless this was the last attempt; a
\* rejected fetch does the same from the catch; an ok response returns.
scrapeAttempt(call, response) ==
  LET requested == [call EXCEPT !.requests = @ + 1]
      retried(c) ==
        IF call.attempt < call.maxRetries - 1
        THEN [c EXCEPT !.delays = Append(@, 1000 * Pow2(call.attempt)),
                       !.attempt = @ + 1]
        ELSE scrapeFailure([c EXCEPT !.attempt = @ + 1])
  IN  IF response = NetworkError
      THEN retried([requested EXCEPT !.lastError = "fetch failed"])
      ELSE IF ~IsOk(response)
      THEN LET failed ==
                 [requested EXCEPT
                    !.lastError = "HTTP " \o StatusText(response.status)]
           IN  IF response.status >= 400 /\ response.status < 500
               THEN scrapeFailure(failed)
               ELSE retried(failed)
      ELSE IF ~IncludesTextHtml(response.contentType)
      THEN [requested EXCEPT
              !.status = "returned",
              !.result = ScrapeResult(FALSE, NULL, NULL,
                           "Unsupported content type: " \o response.contentType)]
      ELSE LET extracted == ServedExtract
           IN  [requested EXCEPT
                  !.status = "returned",
                  !.extracted = TRUE,
                  !.result = ScrapeResult(TRUE, extracted.title,
                                          extracted.content, NULL)]

(***************************************************************************)
(* The robots check: robotsCache, getBaseUrl, fetchRobotsTxt, isAllowed.   *)
(***************************************************************************)
\* A page on another host than the pages of Urls.
OtherHostUrl == "https://f.example/a"

PageUrls == Urls \cup {OtherHostUrl}

\* `${parsed.protocol}//${parsed.host}`
getBaseUrl(url) ==
  IF url \in Urls THEN "https://e.example" ELSE "https://f.example"

UrlPath(url) == IF url = "https://e.example/b" THEN "/b" ELSE "/a"

Origins == {getBaseUrl(url) : url \in PageUrls}

\* What a host answers to GET /robots.txt: rules that disallow /a, an empty
\* file, no file, or nothing at all (the fetch rejects or times out).
DisallowA == "User-agent: *\nDisallow: /a"

RobotsResponse(status, body) == [status |-> status, body |-> body]

RobotsUnreachable == RobotsResponse(0, "")

RobotsResponses ==
  {RobotsResponse(200, DisallowA), RobotsResponse(200, ""),
   RobotsResponse(404, "Not Found"), RobotsUnreachable}

\* robotsParser(url, contents) and the isAllowed method of its result, which
\* is undefined (defined = FALSE) for a url the robots.txt is not about.
robotsParser(url, contents) == [url |-> url, contents |-> contents]

RobotIsAllowed(robot, url) ==
  IF robot.url # getBaseUrl(url) \o "/robots.txt"
  THEN [defined |-> FALSE, allowed |-> FALSE]
  ELSE [defined |-> TRUE,
        allowed |-> ~(robot.contents = DisallowA /\ UrlPath(url) = "/a")]

\* robotsCache.has(baseUrl) is cache[baseUrl] # NotCached.  requests is the
\* list of the responses each origin gave to the requests for its robots.txt,
\* last the isAllowed call made last.
NotCached == robotsParser("not cached", "")

NoRobotsCall == [url |-> "", allowed |-> TRUE, fromCache |-> FALSE]

EmptyRobots ==
  [cache |-> [o \in Origins |-> NotCached],
   requests |-> [o \in Origins |-> <<>>],
   last |-> NoRobotsCall]

\* Faulty variant: a lookup that failed is not stored in the cache.
fetchRobotsTxtNoNegativeCache(r, url, response) ==
  LET baseUrl == getBaseUrl(url)
      robotsUrl == baseUrl \o "/robots.txt"
      requested == [r EXCEPT !.requests[baseUrl] = Append(@, response)]
  IN  IF r.cache[baseUrl] # NotCached
      THEN [robot |-> r.cache[baseUrl], robots |-> r, fromCache |-> TRUE]
      ELSE IF response = RobotsUnreachable
      THEN [robot |-> robotsParser("", ""), robots |-> requested,
            fromCache |-> FALSE]
      ELSE LET robot == robotsParser(robotsUrl,
                          IF IsOk(response) THEN response.body ELSE "")
           IN  [robot |-> robot,
                robots |-> [requested EXCEPT !.cache[baseUrl] = robot],
                fromCache |-> FALSE]

\* fetchRobotsTxt: response is what the host answers if it is asked.
fetchRobotsTxt(r, url, response) ==
  LET baseUrl == getBaseUrl(url)
      robotsUrl == baseUrl \o "/robots.txt"
      requested == [r EXCEPT !.requests[baseUrl] = Append(@, response)]
  IN  IF r.cache[baseUrl] # NotCached
      THEN [robot |-> r.cache[baseUrl], robots |-> r, fromCache |-> TRUE]
      ELSE LET robot ==
                 IF response = RobotsUnreachable
                 THEN robotsParser("", "")
                 ELSE robotsParser(robotsUrl,
                        IF IsOk(response) THEN response.body ELSE "")
           IN  [robot |-> robot,
                robots |-> [requested EXCEPT !.cache[baseUrl] = robot],
                fromCache |-> FALSE]

\* Faulty variant: a url the robot has no answer for is refused.
isAllowedFailClosed(r, url, response) ==
  LET f == fetchRobotsTxt(r, url, response)
      answer == RobotIsAllowed(f.robot, url)
      allowed == answer.defined /\ answer.allowed
  IN  [allowed |-> allowed,
       robots |-> [f.robots EXCEPT
                     !.last = [url |-> url, allowed |-> allowed,
                               fromCache |-> f.fromCache]]]

\* isAllowed: robot.isAllowed(url, userAgent) ?? true.
isAllowed(r, url, response) ==
  LET f == fetchRobotsTxt(r, url, response)
      answer == RobotIsAllowed(f.robot, url)
      allowed == IF answer.defined THEN answer.allowed ELSE TRUE
  IN  [allowed |-> allowed,
       robots |-> [f.robots EXCEPT
                     !.last = [url |-> url, allowed |-> allowed,
                               fromCache |-> f.fromCache]]]

robotsOthers ==
  <<extractCall, fetcher, traversal, chunkCall, worker, generator, task, persistCall, filterCall, httpCall, feed, down, hnStory, hnComment,
    scrapedArticle, fetchRun, prevFetch, embedding, scrapeRun, embedRun,
    embedCall>>

\* isAllowed called on its own.
CallIsAllowed(url, response) ==
  /\ robots' = isAllowed(robots, url, response).robots
  /\ UNCHANGED robotsOthers

httpOthers ==
  <<extractCall, fetcher, traversal, chunkCall, worker, generator, task, persistCall, filterCall, feed, down, hnStory, hnComment, scrapedArticle, fetchRun,
    prevFetch, embedding, scrapeRun, embedRun, embedCall>>

\* A call begins: fetchItem / fetchNewStories enter retryWithBackoff with
\* its default maxRetries, scrapeUrl reads its url and its options.
StartCall(op, script, url, respectRobotsTxt, maxRetries) ==
  /\ httpCall.status = "idle"
  /\ op \in ApiOps => (maxRetries = DefaultMaxRetries /\ respectRobotsTxt)
  /\ httpCall' =
       [IdleHttp EXCEPT
          !.op = op, !.script = script, !.url = url,
          !.respectRobotsTxt = respectRobotsTxt,
          !.maxRetries = maxRetries,
          !.status = IF op = "scrapeUrl" THEN "check-permission" ELSE "fetch"]
  /\ UNCHANGED robots
  /\ UNCHANGED httpOthers

\* Faulty variant: the answer of the robots check is ignored.
CheckPermissionIgnored(response) ==
  /\ httpCall.status = "check-permission"
  /\ robots' = IF httpCall.respectRobotsTxt
               THEN isAllowed(robots, httpCall.url, response).robots
               ELSE robots
  /\ httpCall' = [httpCall EXCEPT !.status = "fetch"]
  /\ UNCHANGED httpOthers

\* scrapeUrl lines 84-96: the robots check comes before the loop, unless
\* respectRobotsTxt is false.  response is what the host of the url answers
\* if it is asked for its robots.txt.
CheckPermission(response) ==
  /\ httpCall.status = "check-permission"
  /\ IF httpCall.respectRobotsTxt
     THEN LET check == isAllowed(robots, httpCall.url, response)
          IN  /\ robots' = check.robots
              /\ httpCall' =
                   IF check.allowed
                   THEN [httpCall EXCEPT !.status = "fetch"]
                   ELSE [httpCall EXCEPT
                           !.status = "returned",
                           !.allowed = FALSE,
                           !.result = ScrapeResult(FALSE, NULL, NULL,
                                                   "Blocked by robots.txt")]
     ELSE /\ httpCall' = [httpCall EXCEPT !.status = "fetch"]
          /\ UNCHANGED robots
  /\ UNCHANGED httpOthers

RetryAttempt ==
  /\ httpCall.status = "fetch"
  /\ httpCall.op \in ApiOps
  /\ httpCall' =
       retryAttempt(httpCall, Response(httpCall.script, httpCall.requests + 1))
  /\ UNCHANGED robots
  /\ UNCHANGED httpOthers

ScrapeAttempt ==
  /\ httpCall.status = "fetch"
  /\ httpCall.op = "scrapeUrl"
  /\ httpCall' =
       scrapeAttempt(httpCall, Response(httpCall.script, httpCall.requests + 1))
  /\ UNCHANGED robots
  /\ UNCHANGED httpOthers

(***************************************************************************)
(* processArticle await by await, for calls that overlap: findUnique and   *)
(* the checks on the row, then count, then one generateEmbedding + INSERT  *)
(* per chunk.                                                              *)
(***************************************************************************)
Workers == 1..2

IdleWorker ==
  [pc |-> "idle", articleId |-> 0, chunks |-> <<>>, embeddingsCreated |-> 0]

workerOthers ==
  <<feed, down, hnStory, hnComment, scrapedArticle, fetchRun, prevFetch,
    scrapeRun, embedRun, embedCall, filterCall, httpCall, persistCall, robots,
    generator, task, chunkCall, extractCall, fetcher, traversal>>

\* Lines 17-31: the row is read and checked.
WorkerBegin(w, articleId) ==
  /\ worker[w].pc = "idle"
  /\ LET found == articleId \in 1..Len(scrapedArticle)
         usable == /\ found
                   /\ scrapedArticle[articleId].status = "success"
                   /\ scrapedArticle[articleId].content # NULL
     IN  worker' = [worker EXCEPT ![w] =
                      [IdleWorker EXCEPT !.articleId = articleId,
                         !.pc = IF usable THEN "count" ELSE "threw"]]
  /\ UNCHANGED embedding
  /\ UNCHANGED workerOthers

\* Lines 34-48: the guard on the existing rows, then the chunks.
WorkerCount(w) ==
  /\ worker[w].pc = "count"
  /\ LET articleId == worker[w].articleId
         existingCount == countEmbeddings(embedding, articleId)
     IN  worker' = [worker EXCEPT ![w] =
                      IF existingCount > 0
                      THEN [@ EXCEPT !.pc = "returned"]
                      ELSE [@ EXCEPT !.pc = "insert",
                              !.chunks = chunkText(scrapedArticle[articleId].content)]]
  /\ UNCHANGED embedding
  /\ UNCHANGED workerOthers

\* Lines 53-82: one turn of the loop over the chunks.
WorkerInsert(w) ==
  /\ worker[w].pc = "insert"
  /\ embedding' = Append(embedding,
                         EmbeddingRow(Head(worker[w].chunks), worker[w].articleId))
  /\ worker' = [worker EXCEPT ![w] =
                  [@ EXCEPT !.chunks = Tail(@),
                            !.embeddingsCreated = @ + 1,
                            !.pc = IF Len(worker[w].chunks) = 1
                                   THEN "returned" ELSE "insert"]]
  /\ UNCHANGED workerOthers

\* The table of jobs after a fetch and a scrape of two stories: both pages
\* extracted.
ScrapedTable ==
  LET created == <<createArticle(<<>>, "https://e.example/a", 1)>>
      both == Append(created, createArticle(created, "https://e.example/b", 2))
      first == writeBack(both, 1,
                 scrapeUrlResult([kind |-> "html",
                                  html |-> "<article>Hello <b>World</b></article>"]))
  IN  writeBack(first, 2,
        scrapeUrlResult([kind |-> "html",
                         html |-> "<title>T</title><main>One. Two.</main>"]))

(***************************************************************************)
(* Embedding generator: getEmbeddingPipeline inside generateEmbedding and  *)
(* generateEmbeddingsBatch.  An instance of the pipeline is named by the   *)
(* number of the pipeline() call that built it; 0 is null.                 *)
(***************************************************************************)
Callers == 1..2

\* The calls one caller makes.
MaxGeneratorCalls == 2

GeneratorOps == {"generateEmbedding", "generateEmbeddingsBatch"}

IdleCaller == [pc |-> "idle", op |-> "none", pipe |-> 0, calls |-> 0]

IdleGenerator ==
  [embeddingPipeline |-> 0, constructed |-> 0,
   caller |-> [c \in Callers |-> IdleCaller]]

generatorOthers ==
  <<feed, down, hnStory, hnComment, scrapedArticle, fetchRun, prevFetch,
    embedding, scrapeRun, embedRun, embedCall, filterCall, httpCall,
    persistCall, robots, worker, task, chunkCall, extractCall, fetcher, traversal>>

\* getEmbeddingPipeline up to its await (lines 19-26): the test of the
\* module variable and, when it is null, the call of pipeline().
Generate(c, op) ==
  /\ generator.caller[c].pc \in {"idle", "returned"}
  /\ generator.caller[c].calls < MaxGeneratorCalls
  /\ generator' =
       IF generator.embeddingPipeline = 0
       THEN [generator EXCEPT
               !.constructed = @ + 1,
               !.caller[c] = [@ EXCEPT !.pc = "loading", !.op = op,
                                       !.pipe = generator.constructed + 1,
                                       !.calls = @ + 1]]
       ELSE [generator EXCEPT
               !.caller[c] = [@ EXCEPT !.pc = "loaded", !.op = op,
                                       !.pipe = generator.embeddingPipeline,
                                       !.calls = @ + 1]]
  /\ UNCHANGED generatorOthers

\* The await of pipeline() resumes: the instance is assigned to the module
\* variable and returned (lines 23-30).
PipelineLoaded(c) ==
  /\ generator.caller[c].pc = "loading"
  /\ generator' =
       [generator EXCEPT
          !.embeddingPipeline = generator.caller[c].pipe,
          !.caller[c] = [@ EXCEPT !.pc = "loaded"]]
  /\ UNCHANGED generatorOthers

\* pipe(text, ...) on the instance the call got (lines 46-54, 75-84).
RunPipeline(c) ==
  /\ generator.caller[c].pc = "loaded"
  /\ generator' = [generator EXCEPT !.caller[c] = [@ EXCEPT !.pc = "returned"]]
  /\ UNCHANGED generatorOthers

(***************************************************************************)
(* The command-line scripts and the Task table.  What the stage a script   *)
(* calls does to the other tables is left out: it returns or it throws.    *)
(***************************************************************************)
PipelineScripts ==
  {"fetch-stories", "scrape-articles", "generate-embeddings",
   "run-full-pipeline"}

\* The scripts whose main creates a row in Task.
RecordingScripts == {"fetch-stories", "scrape-articles", "generate-embeddings"}

Processes == 1..2

\* The invocations made in all.
MaxInvocations == 3

StageError == "stage failed"

NoInvocation == [script |-> "none", taskId |-> 0]

NoTasks ==
  [rows |-> <<>>, invocations |-> 0,
   running |-> [p \in Processes |-> NoInvocation]]

taskOthers ==
  <<feed, down, hnStory, hnComment, scrapedArticle, fetchRun, prevFetch,
    embedding, scrapeRun, embedRun, embedCall, filterCall, httpCall,
    persistCall, robots, worker, generator, chunkCall, extractCall, fetcher, traversal>>

\* main up to the call of the stage: prisma.task.create in the three stage
\* scripts, nothing in run-full-pipeline.
StartScript(p, script) ==
  /\ task.running[p] = NoInvocation
  /\ task.invocations < MaxInvocations
  /\ task' =
       IF script \in RecordingScripts
       THEN [task EXCEPT
               !.invocations = @ + 1,
               !.rows = Append(@, [id |-> Len(@) + 1, type |-> script,
                                   status |-> "running", error |-> NULL]),
               !.running[p] = [script |-> script, taskId |-> Len(task.rows) + 1]]
       ELSE [task EXCEPT
               !.invocations = @ + 1,
               !.running[p] = [script |-> script, taskId |-> 0]]
  /\ UNCHANGED taskOthers

\* The rest of main: prisma.task.update after the stage returned, or in the
\* catch block after it threw; run-full-pipeline only logs.
EndScript(p, outcome) ==
  /\ task.running[p] # NoInvocation
  /\ LET taskId == task.running[p].taskId
     IN  task' =
           IF taskId = 0
           THEN [task EXCEPT !.running[p] = NoInvocation]
           ELSE [task EXCEPT
                   !.running[p] = NoInvocation,
                   !.rows[taskId] =
                      IF outcome = "returns"
                      THEN [@ EXCEPT !.status = "completed"]
                      ELSE [@ EXCEPT !.status = "failed", !.error = StageError]]
  /\ UNCHANGED taskOthers

(***************************************************************************)
(* fetchComments call by call: every invocation is a frame (its commentIds,*)
(* the position of its for loop, its depth, its comments array), every     *)
(* step is one fetchItem or one return.                                    *)
(***************************************************************************)
\* The number of nested fetchComments invocations that are kept: when the
\* recursion goes deeper, the outermost invocations are dropped from the
\* stack, the depth is no longer counted and the requests are no longer
\* listed, only their parity is.  A path through the thread that is longer
\* than the number of reply ids visits some reply twice, and the invocation
\* on the kids of that reply then contains itself: none of the dropped
\* invocations will ever be returned to.
MaxFrames == 4

MaxDepthChoices == {Infinity, 0, 1, 2}

Frame(commentIds, depth) ==
  [commentIds |-> commentIds, next |-> 1, depth |-> depth, comments |-> <<>>]

\* requested lists the fetchItem calls in order: the id, the depth of the
\* invocation that made the call, and path, the comments whose kids lists
\* the enclosing invocations are working on, outermost first.
IdleTraversal ==
  [status |-> "idle", maxDepth |-> Infinity, commentIds |-> <<>>,
   stack |-> <<>>, requested |-> <<>>, result |-> <<>>,
   beyond |-> FALSE, parity |-> 0]

\* Faulty variant: the guard lets one more level through.
AtMaxDepthOffByOne(depth, maxDepth) == depth > maxDepth

\* depth >= maxDepth (line 83)
AtMaxDepth(depth, maxDepth) == depth >= maxDepth

\* The entry of the outermost invocation (lines 83-87).
fetchCommentsCall(commentIds, maxDepth) ==
  IF AtMaxDepth(0, maxDepth) \/ Len(commentIds) = 0
  THEN [IdleTraversal EXCEPT !.status = "returned", !.maxDepth = maxDepth,
                             !.commentIds = commentIds]
  ELSE [IdleTraversal EXCEPT !.status = "running", !.maxDepth = maxDepth,
                             !.commentIds = commentIds,
                             !.stack = <<Frame(commentIds, 0)>>]

PathOf(stack) ==
  [j \in 1..(Len(stack) - 1) |-> stack[j].commentIds[stack[j].next - 1]]

\* One step of the innermost invocation: its loop is over and it returns
\* its comments, which its caller pushes on its own (lines 100, 111), or it
\* fetches the next id (lines 89-108), pushes a comment-typed item and, if
\* that item has kids, invokes fetchComments on them; an invocation at
\* maxDepth, or one that throws in fetchItem, adds nothing.
fetchCommentsStep(t) ==
  LET top == t.stack[Len(t.stack)]
  IN  IF top.next > Len(top.commentIds)
      THEN IF Len(t.stack) = 1
           THEN IF t.beyond THEN t
                ELSE [t EXCEPT !.status = "returned", !.stack = <<>>,
                               !.result = top.comments]
           ELSE [t EXCEPT
                   !.stack =
                      [SubSeq(@, 1, Len(@) - 1) EXCEPT
                         ![Len(t.stack) - 1].comments = @ \o top.comments]]
      ELSE LET commentId == top.commentIds[top.next]
               r == fetchItem(commentId)
               comment == r.item
               isComment == r.ok /\ comment.type = "comment"
               advanced ==
                 [top EXCEPT
                    !.next = @ + 1,
                    !.comments = IF isComment THEN Append(@, comment) ELSE @]
               invoked ==
                 /\ isComment
                 /\ Len(comment.kids) > 0
                 /\ ~AtMaxDepth(top.depth + 1, t.maxDepth)
               stack == [t.stack EXCEPT ![Len(t.stack)] = advanced]
           IN  [t EXCEPT
                  !.requested =
                     IF t.beyond THEN @
                     ELSE Append(@, [id |-> commentId, depth |-> top.depth,
                                     path |-> PathOf(stack)]),
                  !.parity = IF t.beyond THEN 1 - @ ELSE @,
                  !.beyond = @ \/ (invoked /\ Len(stack) = MaxFrames),
                  !.stack =
                     IF ~invoked THEN stack
                     ELSE IF Len(stack) < MaxFrames
                     THEN Append(stack, Frame(comment.kids, top.depth + 1))
                     ELSE Tail(Append(stack, Frame(comment.kids, top.depth)))]

traversalOthers ==
  <<hnStory, hnComment, scrapedArticle, fetchRun, prevFetch, embedding,
    scrapeRun, embedRun, embedCall, filterCall, httpCall, persistCall, robots,
    worker, generator, task, chunkCall, fetcher, extractCall>>

\* fetchComments(story.kids, 0, maxCommentDepth) for a story of the feed,
\* while the endpoints of failing answer with errors.
CallFetchComments(storyId, maxDepth, failing) ==
  /\ traversal.status = "idle"
  /\ down' = failing
  /\ traversal' = fetchCommentsCall(HnItem(feed, storyId).kids, maxDepth)
  /\ UNCHANGED feed
  /\ UNCHANGED traversalOthers

FetchCommentsStep ==
  /\ traversal.status = "running"
  /\ traversal' = fetchCommentsStep(traversal)
  /\ UNCHANGED <<feed, down>>
  /\ UNCHANGED traversalOthers

(***************************************************************************)
(* fetchAndPersistStories await by await, for calls that overlap: each     *)
(* call has one id in its selection.                                       *)
(***************************************************************************)
Fetchers == 1..2

\* existingArticle is what findUnique returned (the set holding the row,
\* empty for null); stories, comments, skipped and errors are the result.
IdleFetcher ==
  [pc |-> "idle", storyId |-> 0, existingArticle |-> {}, stories |-> <<>>,
   comments |-> <<>>, skipped |-> 0, errors |-> <<>>]

fetcherOthers ==
  <<feed, down, fetchRun, prevFetch, embedding, scrapeRun, embedRun, embedCall,
    filterCall, httpCall, persistCall, robots, worker, generator, task,
    chunkCall, traversal, extractCall>>

\* The call reaches its loop with storyIds = [storyId].
FetcherBegin(r, storyId) ==
  /\ fetcher[r].pc = "idle"
  /\ fetcher' = [fetcher EXCEPT ![r] =
                   [IdleFetcher EXCEPT !.pc = "storyExists", !.storyId = storyId]]
  /\ UNCHANGED <<hnStory, hnComment, scrapedArticle>>
  /\ UNCHANGED fetcherOthers

\* The next await of the loop body (lines 305-378): storyExists, fetchItem,
\* persistStory, findUnique, create, then fetchComments with the loop over
\* the comments it returned (the rows that loop writes belong to this call's
\* story alone).  A create that a unique index rejects throws into the
\* catch of the loop body, which records the error and ends the iteration.
FetcherStep(r) ==
  LET self == fetcher[r]
      storyId == self.storyId
      story == HnItem(feed, storyId)
      goto(pc) == [fetcher EXCEPT ![r].pc = pc]
  IN  /\ self.pc \notin {"idle", "returned"}
      /\ IF self.pc = "storyExists"
         THEN /\ fetcher' =
                   IF storyExists(hnStory, storyId)
                   THEN [fetcher EXCEPT ![r].pc = "returned",
                                        ![r].skipped = @ + 1]
                   ELSE goto("fetchItem")
              /\ UNCHANGED <<hnStory, hnComment, scrapedArticle>>
         ELSE IF self.pc = "fetchItem"
         THEN /\ fetcher' = IF story.type # "story" THEN goto("returned")
                            ELSE goto("persistStory")
              /\ UNCHANGED <<hnStory, hnComment, scrapedArticle>>
         ELSE IF self.pc = "persistStory"
         THEN /\ hnStory' = persistStory(hnStory, story)
              /\ fetcher' =
                   [fetcher EXCEPT
                      ![r].stories = Append(@, storyId),
                      ![r].pc = IF story.url # undefined THEN "findUnique"
                                ELSE "fetchComments"]
              /\ UNCHANGED <<hnComment, scrapedArticle>>
         ELSE IF self.pc = "findUnique"
         THEN /\ fetcher' =
                   LET existingArticle == findArticleByUrl(scrapedArticle, story.url)
                   IN  [fetcher EXCEPT
                          ![r].existingArticle = existingArticle,
                          ![r].pc = IF existingArticle = {} THEN "create"
                                    ELSE "fetchComments"]
              /\ UNCHANGED <<hnStory, hnComment, scrapedArticle>>
         ELSE IF self.pc = "create"
         THEN IF UniqueViolation(scrapedArticle, story.url, story.id)
              THEN /\ fetcher' =
                        [fetcher EXCEPT
                           ![r].pc = "returned",
                           ![r].errors =
                              Append(@, [id |-> storyId,
                                         error |-> "Unique constraint failed"])]
                   /\ UNCHANGED <<hnStory, hnComment, scrapedArticle>>
              ELSE /\ scrapedArticle' =
                        Append(scrapedArticle,
                               createArticle(scrapedArticle, story.url, story.id))
                   /\ fetcher' = goto("fetchComments")
                   /\ UNCHANGED <<hnStory, hnComment>>
         ELSE LET comments ==
                    IF Len(story.kids) > 0
                    THEN fetchComments(story.kids, 0, Infinity).comments
                    ELSE <<>>
              IN  /\ hnComment' = persistComments(hnComment, comments, storyId)
                  /\ fetcher' =
                       [fetcher EXCEPT
                          ![r].comments = @ \o SeqMap(ItemId, comments),
                          ![r].pc = "returned"]
                  /\ UNCHANGED <<hnStory, scrapedArticle>>
      /\ UNCHANGED fetcherOthers

(***************************************************************************)
(* extractContent called on its own, on documents with and without each   *)
(* source of a title, with and without each container, and with white      *)
(* space in their text.                                                    *)
(***************************************************************************)
MaxElements == 2
MaxChars == 4

NoExtractCall ==
  [called |-> FALSE, doc |-> Document({}, {}, <<>>, <<>>),
   title |-> {}, content |-> {}]

\* What a source of the title may hold: nothing, white space, a letter of
\* its own, that letter inside white space.
CandidateTexts(letter) == {<<>>, <<" ">>, <<letter>>, <<" ", letter, " ">>}

MetaChoices(letter) == {{}} \cup {{t} : t \in CandidateTexts(letter)}

TitleDocuments ==
  {Document(og, tw, tt, h1) :
     og \in MetaChoices("O"), tw \in MetaChoices("W"),
     tt \in CandidateTexts("T"),
     h1 \in {<<>>} \cup {<<Element("h1", t)>> : t \in CandidateTexts("H")}}

Elements ==
  {Element(tag, text) :
     tag \in {"script", "header", "article", "main", "[role='main']", "p"},
     text \in {<<>>, <<"x">>, <<" ", "y", "\n">>}}

ElementDocuments ==
  {Document({}, {}, <<>>, es) :
     es \in UNION {[1..n -> Elements] : n \in 0..MaxElements}}

TextDocuments ==
  {Document({}, {}, <<>>, <<Element("p", text)>>) :
     text \in UNION {[1..n -> {" ", "a", "\n"}] : n \in 0..MaxChars}}

Documents == TitleDocuments \cup ElementDocuments \cup TextDocuments

CallExtractContent(doc) ==
  /\ ~extractCall.called
  /\ extractCall' =
       LET extracted == extractDocument(doc)
       IN  [called |-> TRUE, doc |-> doc, title |-> extracted.title,
            content |-> extracted.content]
  /\ UNCHANGED <<feed, down, hnStory, hnComment, scrapedArticle, fetchRun,
                 prevFetch, embedding, scrapeRun, embedRun, embedCall,
                 filterCall, httpCall, persistCall, robots, worker, generator,
                 task, chunkCall, traversal, fetcher>>

(***************************************************************************)
(* Specifications.                                                         *)
(***************************************************************************)
InitStorage ==
  /\ hnStory = <<>>
  /\ hnComment = <<>>
  /\ scrapedArticle = <<>>
  /\ embedding = <<>>

InitCalls ==
  /\ fetchRun = IdleFetch
  /\ prevFetch = NoPrevFetch
  /\ scrapeRun = IdleScrape
  /\ embedRun = IdleEmbed
  /\ embedCall = NoEmbedCall
  /\ filterCall = NoFilterCall
  /\ httpCall = IdleHttp
  /\ persistCall = NoPersistCall
  /\ worker = [w \in Workers |-> IdleWorker]
  /\ generator = IdleGenerator
  /\ task = NoTasks
  /\ chunkCall = NoChunkCall
  /\ traversal = IdleTraversal
  /\ fetcher = [r \in Fetchers |-> IdleFetcher]
  /\ extractCall = NoExtractCall

InitRobots == robots = EmptyRobots

InitRuns == down = {} /\ InitCalls /\ InitRobots

\* The fetch service alone, over every feed and with failing endpoints.
InitFetch == feed \in Feeds /\ InitStorage /\ InitRuns

NextFetch ==
  \/ \E options \in FetchOptionChoices, failing \in FailingChoices :
        StartFetch(options, failing)
  \/ ProcessStory
  \/ FinishFetch

SpecFetch == InitFetch /\ [][NextFetch]_vars

\* The three stages, one call at a time (the record of a finished call is
\* dropped when the next stage starts), over feeds of stories with and
\* without an external URL.
PipelineFeeds ==
  {f \in Feeds : /\ f.thread = "nested"
                 /\ \A s \in StoryIds : f.kind[s] \in Urls \cup {undefined}}

Init == feed \in PipelineFeeds /\ InitStorage /\ InitRuns

Next ==
  \/ \E options \in {[count |-> 1], [count |-> MaxStories]} :
        StartFetch(options, {})
  \/ ProcessStory
  \/ FinishFetch
  \/ \E limit \in LimitChoices : StartScrape(limit)
  \/ \E site \in SiteChoices : ScrapeArticle(site, "ok")
  \/ FinishScrape
  \/ \E articleId \in 1..MaxStories, failAt \in FailAtChoices :
        CallProcessArticle(articleId, failAt)
  \/ \E limit \in LimitChoices : StartEmbed(limit)
  \/ \E failAt \in FailAtChoices : EmbedArticle(failAt)
  \/ FinishEmbed

Spec == Init /\ [][Next]_vars

\* The scrape stage on the jobs a fetch created, with a database that may
\* reject the scheduler's writes.
NextScrape ==
  \/ \E options \in {[count |-> 1], [count |-> MaxStories]} :
        StartFetch(options, {})
  \/ ProcessStory
  \/ FinishFetch
  \/ \E limit \in LimitChoices : StartScrape(limit)
  \/ \E site \in SiteChoices, storage \in StorageChoices :
        ScrapeArticle(site, storage)
  \/ FinishScrape

SpecScrape == Init /\ [][NextScrape]_vars

\* The fetch and scrape stages with a database that may be unreachable
\* during a whole fetch run or reject the scheduler's writes, and with fetch
\* runs that are terminated.
InitFaults ==
  /\ feed \in {f \in Feeds : f.thread = "nested"}
  /\ InitStorage
  /\ InitRuns

NextFaults ==
  \/ \E options \in {[count |-> MaxStories], <<>>},
        failing \in {{}, {StorageEndpoint}} :
        StartFetch(options, failing)
  \/ ProcessStory
  \/ \E point \in KillPoints : KillFetch(point)
  \/ FinishFetch
  \/ \E limit \in LimitChoices : StartScrape(limit)
  \/ \E site \in {[kind |-> "http-error"]}, storage \in StorageChoices :
        ScrapeArticle(site, storage)
  \/ FinishScrape

SpecFaults == InitFaults /\ [][NextFaults]_vars

\* The fetch service on feeds in which every reply has one parent, with
\* failing endpoints and terminated runs.
ThreadFeeds ==
  [kind : [StoryIds -> {"https://e.example/a", undefined, NULL}],
   thread : {"nested", "split"}, time : {PostingTimes}]

InitThreads == feed \in ThreadFeeds /\ InitStorage /\ InitRuns

NextThreads ==
  \/ \E options \in {<<>>, [count |-> MaxStories, maxCommentDepth |-> 1]},
        failing \in {{}, {1}, {FirstReply}} :
        StartFetch(options, failing)
  \/ ProcessStory
  \/ \E point \in KillPoints : KillFetch(point)
  \/ FinishFetch

SpecThreads == InitThreads /\ [][NextThreads]_vars

\* filterStoryIds alone, over every list of items and failing endpoint.
InitFilter ==
  /\ feed \in FilterFeeds
  /\ down \in FilterFailingChoices
  /\ InitStorage
  /\ InitCalls
  /\ InitRobots

NextFilter ==
  \E options \in FilterOptionChoices :
     CallFilter(Descending(MaxListLen), options)

SpecFilter == InitFilter /\ [][NextFilter]_vars

\* The HTTP calls alone, over every script of responses.  A call that has
\* begun goes on: the await of a request or of a delay always resumes.
InitClient ==
  /\ feed \in {f \in PipelineFeeds : \A s \in StoryIds : f.kind[s] = undefined}
  /\ InitStorage
  /\ InitRuns

NextClient ==
  \/ /\ httpCall.status = "idle"
     /\ \E op \in HttpOps, script \in Scripts,
           respectRobotsTxt \in BOOLEAN, maxRetries \in MaxRetriesChoices :
           StartCall(op, script, "https://e.example/a", respectRobotsTxt,
                     maxRetries)
  \/ \E response \in RobotsResponses : CheckPermission(response)
  \/ RetryAttempt
  \/ ScrapeAttempt

\* The robots check alone and inside scrapeUrl: isAllowed calls on pages of
\* two hosts, and one scrapeUrl call whose page is served at once.
InitRobotsCheck ==
  /\ feed \in {f \in PipelineFeeds : \A s \in StoryIds : f.kind[s] = undefined}
  /\ InitStorage
  /\ InitRuns

NextRobotsCheck ==
  \/ \E url \in PageUrls, response \in RobotsResponses :
        CallIsAllowed(url, response)
  \/ \E url \in PageUrls :
        StartCall("scrapeUrl", <<HttpResponse(200, HtmlContentType)>>, url,
                  TRUE, DefaultMaxRetries)
  \/ \E response \in RobotsResponses : CheckPermission(response)
  \/ ScrapeAttempt

SpecRobots == InitRobotsCheck /\ [][NextRobotsCheck]_vars

\* persistStory and persistComment alone, on every item and table.
InitPersist ==
  /\ feed \in PersistFeeds
  /\ hnStory \in StoredStories
  /\ hnComment \in StoredComments
  /\ scrapedArticle = <<>>
  /\ embedding = <<>>
  /\ InitRuns

NextPersist ==
  \/ \E s \in StoryIds : CallPersistStory(HnItem(feed, s))
  \/ \E c \in CommentIds, s \in StoryIds :
        CallPersistComment(HnItem(feed, c), s)

SpecPersist == InitPersist /\ [][NextPersist]_vars

\* Two processArticle calls at a time on the jobs of two scraped stories.
InitWorkers ==
  /\ feed \in {f \in PipelineFeeds : \A s \in StoryIds : f.kind[s] = undefined}
  /\ hnStory = <<>>
  /\ hnComment = <<>>
  /\ scrapedArticle = ScrapedTable
  /\ embedding = <<>>
  /\ InitRuns

NextWorkers ==
  \/ \E w \in Workers, articleId \in 1..3 : WorkerBegin(w, articleId)
  \/ \E w \in Workers : WorkerCount(w)
  \/ \E w \in Workers : WorkerInsert(w)

SpecWorkers == InitWorkers /\ [][NextWorkers]_vars

\* The generator called by two callers whose calls may overlap.
NextGenerator ==
  \/ \E c \in Callers, op \in GeneratorOps : Generate(c, op)
  \/ \E c \in Callers : PipelineLoaded(c)
  \/ \E c \in Callers : RunPipeline(c)

SpecGenerator == InitClient /\ [][NextGenerator]_vars

\* Invocations of the four scripts by two processes.
NextScripts ==
  \/ \E p \in Processes, script \in PipelineScripts : StartScript(p, script)
  \/ \E p \in Processes, outcome \in {"returns", "throws"} :
        EndScript(p, outcome)

SpecScripts == InitClient /\ [][NextScripts]_vars

\* chunkText alone, on every text and answer of the splitters.
NextChunker ==
  \E text \in ChunkTexts, paragraphChunks \in PieceLists,
     sentenceChunks \in PieceLists :
     CallChunkText(text, paragraphChunks, sentenceChunks)

SpecChunker == InitClient /\ [][NextChunker]_vars

SpecClient ==
  /\ InitClient
  /\ [][NextClient]_vars
  /\ WF_vars(\E response \in RobotsResponses : CheckPermission(response))
  /\ WF_vars(RetryAttempt)
  /\ WF_vars(ScrapeAttempt)

\* One fetchComments call on the kids of a story, over threads that are
\* trees, threads in which a reply is listed twice, and threads in which a
\* reply is reachable from itself; replies may be served as comments, as
\* items of another type or as null.  The loop and the recursion always
\* take their next step.
ReplyIds == {FirstReply, SecondReply, ThirdReply}

TraversalFeeds ==
  [kind : {[s \in StoryIds |-> undefined]},
   thread : {"nested", "forked", "shared", "self", "loop"},
   time : {PostingTimes},
   reply : [ReplyIds -> ReplyKinds]]

InitTraversal ==
  /\ feed \in TraversalFeeds
  /\ InitStorage
  /\ InitRuns

NextTraversal ==
  \/ \E storyId \in StoryIds, maxDepth \in MaxDepthChoices,
        failing \in {{}, {FirstReply}, {SecondReply}} :
        CallFetchComments(storyId, maxDepth, failing)
  \/ FetchCommentsStep

SpecTraversal ==
  /\ InitTraversal
  /\ [][NextTraversal]_vars
  /\ WF_vars(FetchCommentsStep)

\* Fetch runs over feeds in which the ids of the list and the ids of the
\* replies are served as items of the expected type, of another type or as
\* null.
SkipFeeds ==
  [kind : [StoryIds -> {"https://e.example/a", "job", NULL}],
   thread : {"nested", "forked"},
   time : {PostingTimes},
   reply : [ReplyIds -> ReplyKinds]]

InitSkips ==
  /\ feed \in SkipFeeds
  /\ InitStorage
  /\ InitRuns

NextSkips ==
  \/ \E options \in {[count |-> MaxStories],
                      [count |-> MaxStories, maxCommentDepth |-> 1]} :
        StartFetch(options, {})
  \/ ProcessStory
  \/ FinishFetch

SpecSkips == InitSkips /\ [][NextSkips]_vars

\* Two fetchAndPersistStories calls at the same time, the first on story 1
\* and the second on the newest story, each story with one reply; the
\* stories have external URLs, the same one or not, or none.
OverlapFeeds ==
  [kind : [StoryIds -> Urls \cup {undefined}], thread : {"split"},
   time : {PostingTimes}]

InitOverlap ==
  /\ feed \in OverlapFeeds
  /\ InitStorage
  /\ InitRuns

NextOverlap ==
  \/ FetcherBegin(1, 1)
  \/ FetcherBegin(2, MaxStories)
  \/ \E r \in Fetchers : FetcherStep(r)

SpecOverlap == InitOverlap /\ [][NextOverlap]_vars

\* filterStoryIds with a count, with a count and hours, and with neither,
\* on lists whose items are posted now, exactly 24 hours ago or 25 hours
\* ago (the clock of the model reads MaxStories hours, so that the times of
\* the older items are negative).
SelectionFeeds ==
  [kind : [ListIds -> {undefined, NULL}],
   thread : {"nested"},
   time : [ListIds -> {NowSeconds - h * SecondsPerHour :
                         h \in {0, DefaultHours, DefaultHours + 1}}]]

SelectionOptionChoices ==
  {[count |-> n] : n \in 0..(MaxListLen + 1)}
  \cup {[count |-> 1, hours |-> 1], [count |-> 2, hours |-> 0], <<>>}

InitSelection ==
  /\ feed \in SelectionFeeds
  /\ down \in FilterFailingChoices
  /\ InitStorage
  /\ InitCalls
  /\ InitRobots

NextSelection ==
  \E options \in SelectionOptionChoices :
     CallFilter(Descending(MaxListLen), options)

SpecSelection == InitSelection /\ [][NextSelection]_vars

\* One extractContent call on a document.
NextExtract == \E doc \in Documents : CallExtractContent(doc)

SpecExtract == InitClient /\ [][NextExtract]_vars

(***************************************************************************)
(* Properties of the fetch service (SpecFetch).                            *)
(***************************************************************************)
\* C1: when a fetch run repeats the completed run before it (same selected
\* ids, same endpoints failing, feed unchanged), it creates no HnStory row
\* and no HnComment row, and its skipped counter counts every selected id
\* the first run persisted.
C1_IdempotentIngestion ==
  (fetchRun.status \in {"running", "done"} /\ prevFetch.repeated) =>
     /\ fetchRun.newStories = {}
     /\ fetchRun.newComments = {}
     /\ fetchRun.status = "done" =>
          fetchRun.result.skipped >=
            Cardinality({i \in 1..Len(fetchRun.storyIds) :
                           fetchRun.storyIds[i] \in prevFetch.stories})

\* A second run over the same selection has finished after a first run that
\* persisted a story with replies.
C1_Witness ==
  /\ fetchRun.status = "done"
  /\ prevFetch.repeated
  /\ prevFetch.stories # {}
  /\ fetchRun.result.skipped = Len(fetchRun.storyIds)
  /\ DOMAIN hnComment # {}

\* The persisted roots that carry url, and the jobs for url.
RootsWithUrl(url) == {s \in DOMAIN hnStory : hnStory[s].url = url}
JobsForUrl(url) == {i \in 1..Len(scrapedArticle) : scrapedArticle[i].url = url}

FirstRoot(roots) ==
  CHOOSE s \in roots : \A t \in roots : hnStory[s].createdAt <= hnStory[t].createdAt

\* C2: at most one ScrapedArticle per URL; when persisted roots carry a URL,
\* exactly one job exists for it and it references the root persisted first.
C2_OneJobPerUrl ==
  \A url \in Urls :
     /\ Cardinality(JobsForUrl(url)) <= 1
     /\ RootsWithUrl(url) # {} =>
          \E i \in JobsForUrl(url) :
             scrapedArticle[i].storyId = FirstRoot(RootsWithUrl(url))

\* Two roots with the same URL are persisted, the older one first.
C2_Witness ==
  \E url \in Urls :
     /\ Cardinality(RootsWithUrl(url)) = 2
     /\ Cardinality(JobsForUrl(url)) = 1
     /\ FirstRoot(RootsWithUrl(url)) = 1

\* A step of the loop of fetchAndPersistStories.
FetchStep ==
  fetchRun.status = "running" /\ fetchRun'.next = fetchRun.next + 1

\* C8: a step of a fetch run creates a job exactly when it persists a root
\* whose item has a url and no job has that url before the step; the new job
\* is pending and references the root; the older jobs stay as they are.
C8_JobCreation ==
  [][FetchStep =>
       LET storyId == fetchRun.storyIds[fetchRun.next]
           persisted == storyId \in DOMAIN hnStory' \ DOMAIN hnStory
           created == Len(scrapedArticle') = Len(scrapedArticle) + 1
           item == HnItem(feed, storyId)
       IN  /\ created <=>
                /\ persisted
                /\ item.url # undefined
                /\ \A i \in 1..Len(scrapedArticle) : scrapedArticle[i].url # item.url
           /\ ~created => scrapedArticle' = scrapedArticle
           /\ created =>
                /\ SubSeq(scrapedArticle', 1, Len(scrapedArticle)) = scrapedArticle
                /\ scrapedArticle'[Len(scrapedArticle')].status = "pending"
                /\ scrapedArticle'[Len(scrapedArticle')].storyId = storyId
                /\ scrapedArticle'[Len(scrapedArticle')].url = item.url
  ]_vars

\* A root without a URL and a root with a URL are persisted, one job exists.
C8_Witness ==
  /\ Len(scrapedArticle) = 1
  /\ \E s \in DOMAIN hnStory : hnStory[s].url = NULL
  /\ \E s \in DOMAIN hnStory : hnStory[s].url # NULL

(***************************************************************************)
(* Properties of the pipeline (Spec).                                      *)
(***************************************************************************)
\* A step of the loop of scrapeAndPersistArticles.
ScrapeStep ==
  scrapeRun.status = "running" /\ scrapeRun'.next = scrapeRun.next + 1

\* C9: the status of a job is pending, success or failed; only a step of a
\* fetch run adds a job, and the job it adds is pending with no title,
\* content or error; only a step of the scrape scheduler changes an existing
\* job.
C9_JobLifecycle ==
  /\ [](\A i \in 1..Len(scrapedArticle) :
           scrapedArticle[i].status \in {"pending", "success", "failed"})
  /\ [][/\ Len(scrapedArticle') >= Len(scrapedArticle)
        /\ ~ScrapeStep =>
             SubSeq(scrapedArticle', 1, Len(scrapedArticle)) = scrapedArticle
        /\ Len(scrapedArticle') > Len(scrapedArticle) =>
             /\ FetchStep
             /\ \A i \in (Len(scrapedArticle) + 1)..Len(scrapedArticle') :
                   /\ scrapedArticle'[i].status = "pending"
                   /\ scrapedArticle'[i].title = NULL
                   /\ scrapedArticle'[i].content = NULL
                   /\ scrapedArticle'[i].error = NULL
       ]_vars

\* A fetch run persisted a story and an embed call stored rows while a job
\* already scraped with success is in the table.
C9_Witness ==
  /\ fetchRun.status = "done"
  /\ Len(fetchRun.result.stories) > 0
  /\ Len(embedding) > 0
  /\ Len(scrapedArticle) = 2
  /\ scrapedArticle[1].status = "success"
  /\ scrapedArticle[2].status = "pending"

\* C10: the job the scheduler processed last carries the ScrapeResult it
\* recorded: success with the extracted title and content and a null error,
\* or failed with the error text and null content; and every failed job has
\* null content, every success job a null error.
C10_WriteBack ==
  /\ scrapeRun.next > 1 =>
       LET job == scrapedArticle[scrapeRun.pendingArticles[scrapeRun.next - 1]]
           result == scrapeRun.result
       IN  IF result.success
           THEN /\ job.status = "success"
                /\ job.title = result.title
                /\ job.content = result.content
                /\ job.error = NULL
           ELSE /\ job.status = "failed"
                /\ job.error = result.error
                /\ job.error # NULL
                /\ job.content = NULL
  /\ \A i \in 1..Len(scrapedArticle) :
        /\ scrapedArticle[i].status = "failed" => scrapedArticle[i].content = NULL
        /\ scrapedArticle[i].status = "success" => scrapedArticle[i].error = NULL
        /\ scrapedArticle[i].status = "pending" =>
             scrapedArticle[i].content = NULL /\ scrapedArticle[i].error = NULL

\* A run of the scheduler recorded a success with content and a failure.
C10_Witness ==
  /\ scrapeRun.status = "done"
  /\ scrapeRun.stats.success = 1
  /\ scrapeRun.stats.failed = 1
  /\ \E i \in 1..Len(scrapedArticle) :
        scrapedArticle[i].status = "success" /\ scrapedArticle[i].content # NULL
  /\ \E i \in 1..Len(scrapedArticle) :
        scrapedArticle[i].status = "failed" /\ scrapedArticle[i].error # NULL

\* C3: a processArticle call that follows a call on the same article that
\* returned normally returns 0 and inserts no Embedding row; a call that
\* returns normally leaves the article with embeddings, and when it returns
\* a count above 0 it has stored one row for every chunk of the content.
C3_AtMostOnceEmbeddings ==
  /\ embedCall.repeated =>
       /\ ~embedCall.threw
       /\ embedCall.returned = 0
       /\ embedCall.inserted = 0
  /\ (embedCall.articleId # 0 /\ ~embedCall.threw) =>
       /\ embedCall.inserted = embedCall.returned
       /\ countEmbeddings(embedding, embedCall.articleId) >= 1
       /\ embedCall.returned > 0 =>
            /\ embedCall.returned =
                 Len(chunkText(scrapedArticle[embedCall.articleId].content))
            /\ countEmbeddings(embedding, embedCall.articleId) = embedCall.returned

\* The second of two calls on an article whose chunks the first call stored.
C3_Witness ==
  /\ embedCall.repeated
  /\ embedCall.returned = 0
  /\ countEmbeddings(embedding, embedCall.articleId) =
       Len(chunkText(scrapedArticle[embedCall.articleId].content))


(***************************************************************************)
(* Properties of filterStoryIds (SpecFilter).                              *)
(***************************************************************************)
\* What the scan sees of an id: an item at least as recent as the cutoff, an
\* older item, or nothing (a null item, a failed fetch).
IsRecentItem(id, cutoffTime) ==
  LET r == fetchItem(id)
  IN  r.ok /\ r.item.type # NULL /\ r.item.time >= cutoffTime

IsOlderItem(id, cutoffTime) ==
  LET r == fetchItem(id)
  IN  r.ok /\ r.item.type # NULL /\ r.item.time < cutoffTime

\* Position of the first older item of the list, Len + 1 when there is none.
FirstOlder(storyIds, cutoffTime) ==
  LET older == {i \in 1..Len(storyIds) : IsOlderItem(storyIds[i], cutoffTime)}
  IN  IF older = {} THEN Len(storyIds) + 1
      ELSE CHOOSE i \in older : \A j \in older : i <= j

TimeWindowCall ==
  /\ filterCall.called
  /\ "count" \notin DOMAIN filterCall.options
  /\ "hours" \in DOMAIN filterCall.options

\* C4: with hours = H and now = N, T = N - H*3600, the selection is, in list
\* order, exactly the ids with an item of time >= T that come before the
\* first item of time < T; that first older item and every id after it are
\* left out, and no item after it is fetched.
C4_TimeWindowSelection ==
  TimeWindowCall =>
    LET storyIds == filterCall.storyIds
        T == NowSeconds - filterCall.options.hours * SecondsPerHour
        stop == FirstOlder(storyIds, T)
        Recent(id) == IsRecentItem(id, T)
    IN  /\ \A i \in 1..Len(storyIds) :
             (storyIds[i] \in Range(filterCall.filtered))
               <=> (i < stop /\ Recent(storyIds[i]))
        /\ filterCall.filtered = SelectSeq(SubSeqTo(storyIds, stop - 1), Recent)
        /\ filterCall.fetched = SubSeqTo(storyIds, stop)

\* A scan that selected an id, met an older item and left ids behind it.
C4_Witness ==
  /\ TimeWindowCall
  /\ LET storyIds == filterCall.storyIds
         T == NowSeconds - filterCall.options.hours * SecondsPerHour
         stop == FirstOlder(storyIds, T)
     IN  /\ stop < Len(storyIds)
         /\ Len(filterCall.filtered) >= 1
         /\ IsRecentItem(storyIds[Len(storyIds)], T)

(***************************************************************************)
(* Properties of the HTTP calls (SpecClient).                              *)
(***************************************************************************)
TransientScript ==
  <<HttpResponse(503, HtmlContentType), HttpResponse(503, HtmlContentType),
    HttpResponse(200, HtmlContentType)>>

TransientCall ==
  /\ httpCall.status \notin {"idle", "check-permission"}
  /\ httpCall.script = TransientScript
  /\ httpCall.maxRetries = DefaultMaxRetries
  /\ httpCall.allowed

TransientSuccess ==
  /\ httpCall.status = "returned"
  /\ httpCall.requests = 3
  /\ Len(httpCall.delays) = 2
  /\ httpCall.op = "scrapeUrl" => httpCall.result.success

\* C5: a call (fetchItem, fetchNewStories, scrapeUrl with its default
\* options) whose endpoint answers 503, 503, 200 eventually succeeds, having
\* made exactly 3 requests and 2 retries; it never throws and never makes a
\* fourth request.
C5_TransientFailureRecovers ==
  /\ TransientCall ~> (TransientCall /\ TransientSuccess)
  /\ [](TransientCall =>
          /\ httpCall.status # "threw"
          /\ httpCall.requests <= 3
          /\ httpCall.status = "returned" => TransientSuccess)

C5_Witness ==
  /\ TransientCall
  /\ TransientSuccess
  /\ httpCall.delays = <<1000, 2000>>

IsClientError(response) == response.status >= 400 /\ response.status <= 499

\* C6: in the Forum API client a 4xx response is not retried: the request it
\* answers is the last request of the call, the call throws, and no delay
\* follows.
C6_ClientErrorNotRetried ==
  httpCall.op \in ApiOps =>
    \A i \in 1..httpCall.requests :
       IsClientError(Response(httpCall.script, i)) =>
          /\ httpCall.requests = i
          /\ httpCall.status = "threw"
          /\ Len(httpCall.delays) = i - 1

\* C7: in scrapeUrl a response with status 400..499 ends the call: the
\* request it answers is the last one, no delay follows it (none at all when
\* it answers the first request), and the result is success = false, error
\* "HTTP <status>: <text>", title and content null.
C7_ScrapeClientErrorTerminates ==
  httpCall.op = "scrapeUrl" =>
    \A i \in 1..httpCall.requests :
       LET response == Response(httpCall.script, i)
       IN  IsClientError(response) =>
             /\ httpCall.requests = i
             /\ Len(httpCall.delays) = i - 1
             /\ httpCall.status = "returned"
             /\ httpCall.result =
                  ScrapeResult(FALSE, NULL, NULL,
                               "HTTP " \o StatusText(response.status))

C7_Witness ==
  /\ httpCall.op = "scrapeUrl"
  /\ httpCall.requests = 1
  /\ IsClientError(Response(httpCall.script, 1))
  /\ httpCall.status = "returned"
  /\ httpCall.delays = <<>>


(***************************************************************************)
(* Properties of the requests of a fetch run (SpecFetch).                  *)
(***************************************************************************)
ErrorIds == {fetchRun.result.errors[i].id : i \in 1..Len(fetchRun.result.errors)}

\* C17: every item fetch that failed during the run (the id was passed to
\* fetchItem while its endpoint was failing) has an entry in the errors list
\* of the result that carries its id, and the run goes on to its end.
C17_FetchFailuresRecorded ==
  fetchRun.status \in {"running", "done"} =>
    \A i \in 1..Len(fetchRun.requested) :
       fetchRun.requested[i] \in down => fetchRun.requested[i] \in ErrorIds

\* C18: during one run no reply id is passed to fetchItem twice.
C18_NoReplyRefetched ==
  \A i, j \in 1..Len(fetchRun.requested) :
     (i < j /\ fetchRun.requested[i] = fetchRun.requested[j])
        => fetchRun.requested[i] \notin CommentIds

\* Rows of HnStory that were there when the run began.
StoredBeforeRun == DOMAIN hnStory \ fetchRun.newStories

\* C20: a run never passes to fetchItem the id of a root that was already
\* in storage, and never writes the row of such a root.
C20_OnlyNewItemsFetched ==
  fetchRun.status \in {"running", "done"} =>
    /\ \A i \in 1..Len(fetchRun.requested) :
          fetchRun.requested[i] \notin StoredBeforeRun
    /\ \A id \in StoredBeforeRun : ~hnStory[id].updated



(***************************************************************************)
(* Properties of persistStory and persistComment (SpecPersist).            *)
(***************************************************************************)
\* C19: after persistStory / persistComment the table has a row under the id
\* of the item.  When there was none the row is created from the item; when
\* there was one, its mutable fields (url of a story, parent of a reply) are
\* those of the item, it is marked updated, and its id, time, creation order
\* and story are the ones it had.
C19_Upsert ==
  /\ persistCall.op = "persistStory" =>
       /\ persistCall.id \in DOMAIN hnStory
       /\ LET row == hnStory[persistCall.id]
              item == persistCall.item
          IN  /\ row.id = item.id
              /\ row.url = IF item.url = undefined THEN NULL ELSE item.url
              /\ persistCall.before = {} =>
                   (row.time = item.time /\ ~row.updated)
              /\ \A b \in persistCall.before :
                   /\ row.updated
                   /\ row.id = b.id
                   /\ row.time = b.time
                   /\ row.createdAt = b.createdAt
  /\ persistCall.op = "persistComment" =>
       /\ persistCall.id \in DOMAIN hnComment
       /\ LET row == hnComment[persistCall.id]
              item == persistCall.item
          IN  /\ row.id = item.id
              /\ row.parent = item.parent
              /\ persistCall.before = {} =>
                   /\ row.time = item.time
                   /\ row.storyId = persistCall.storyId
                   /\ ~row.updated
              /\ \A b \in persistCall.before :
                   /\ row.updated
                   /\ row.id = b.id
                   /\ row.time = b.time
                   /\ row.storyId = b.storyId

\* persistStory met a row with another url and another time than the item.
C19_Witness ==
  /\ persistCall.op = "persistStory"
  /\ \E b \in persistCall.before :
        /\ b.url # hnStory[persistCall.id].url
        /\ b.time # persistCall.item.time



(***************************************************************************)
(* Properties of the steps of a scrapeUrl call (SpecClient).               *)
(***************************************************************************)
\* The robots check of this call has completed.
PermissionChecked ==
  robots.last # NoRobotsCall /\ robots.last.url = httpCall.url

\* From the robots check on: a denied url ends the call as 'Blocked by
\* robots.txt' without a page request; extractContent runs only on an ok
\* response of a text/html type, which ends the call as a success; an ok
\* response of another type ends the call as 'Unsupported content type',
\* without extraction, further request or delay.
FetchThenExtract ==
  /\ (PermissionChecked /\ ~robots.last.allowed) =>
        /\ httpCall.status = "returned"
        /\ httpCall.requests = 0
        /\ httpCall.result =
             ScrapeResult(FALSE, NULL, NULL, "Blocked by robots.txt")
  /\ httpCall.extracted =>
        /\ httpCall.requests >= 1
        /\ LET response == Response(httpCall.script, httpCall.requests)
           IN  /\ response.status \in 200..299
               /\ IncludesTextHtml(response.contentType)
        /\ httpCall.status = "returned"
        /\ httpCall.result.success
  /\ \A i \in 1..httpCall.requests :
        LET response == Response(httpCall.script, i)
        IN  (response.status \in 200..299
             /\ ~IncludesTextHtml(response.contentType)) =>
               /\ httpCall.requests = i
               /\ Len(httpCall.delays) = i - 1
               /\ ~httpCall.extracted
               /\ httpCall.status = "returned"
               /\ httpCall.result =
                    ScrapeResult(FALSE, NULL, NULL,
                      "Unsupported content type: " \o response.contentType)

\* C14 as stated: in every scrapeUrl call the page is requested only after
\* the robots check has completed and allowed the url, and the call goes on
\* as FetchThenExtract says.
C14_EveryCallChecked ==
  httpCall.op = "scrapeUrl" =>
    /\ httpCall.status = "check-permission" => httpCall.requests = 0
    /\ httpCall.requests > 0 => (PermissionChecked /\ robots.last.allowed)
    /\ FetchThenExtract

\* C14, amended: the same for every scrapeUrl call that leaves the option
\* respectRobotsTxt at its default, true.
C14_ScrapeStateMachine ==
  (httpCall.op = "scrapeUrl" /\ httpCall.respectRobotsTxt) =>
    /\ httpCall.status = "check-permission" =>
         (httpCall.requests = 0 /\ ~PermissionChecked)
    /\ httpCall.status # "check-permission" => PermissionChecked
    /\ httpCall.requests > 0 => robots.last.allowed
    /\ FetchThenExtract

\* A checked call that was answered 5xx and then a page that is not HTML.
C14_Witness ==
  /\ httpCall.op = "scrapeUrl"
  /\ httpCall.respectRobotsTxt
  /\ PermissionChecked
  /\ httpCall.requests = 2
  /\ httpCall.status = "returned"
  /\ httpCall.result.error = "Unsupported content type: " \o PdfContentType



(***************************************************************************)
(* Properties of the robots check (SpecRobots).                            *)
(***************************************************************************)
\* C15: robots.txt is requested at most once per origin: an origin is in
\* the cache exactly when it has been asked once, whatever it answered, and
\* every isAllowed call leaves the origin of its url asked exactly once.
C15_RobotsFetchedOncePerOrigin ==
  /\ \A o \in Origins :
        /\ Len(robots.requests[o]) <= 1
        /\ Len(robots.requests[o]) = 1 <=> robots.cache[o] # NotCached
  /\ robots.last # NoRobotsCall =>
        Len(robots.requests[getBaseUrl(robots.last.url)]) = 1
  /\ robots.last.fromCache =>
        robots.cache[getBaseUrl(robots.last.url)] # NotCached

\* A lookup answered from the cache after the only request for the
\* robots.txt of its origin had failed, the other origin asked as well.
C15_Witness ==
  /\ robots.last.fromCache
  /\ robots.requests[getBaseUrl(robots.last.url)] = <<RobotsUnreachable>>
  /\ \A o \in Origins : Len(robots.requests[o]) = 1

\* The origin of the url had no robots.txt to give: the one request for it
\* was answered with a status outside 200..299, or not at all.
NoRobotsTxtFor(url) ==
  LET asked == robots.requests[getBaseUrl(url)]
  IN  Len(asked) >= 1 /\ asked[1].status \notin 200..299

\* C16: when the robots.txt of an origin is absent or could not be fetched,
\* isAllowed answers true for the urls of that origin, and a scrapeUrl call
\* on such a url passes its robots check and goes on to request the page.
C16_RobotsFailOpen ==
  /\ (robots.last # NoRobotsCall /\ NoRobotsTxtFor(robots.last.url)) =>
        robots.last.allowed
  /\ (/\ httpCall.op = "scrapeUrl"
      /\ httpCall.status # "check-permission"
      /\ NoRobotsTxtFor(httpCall.url)) =>
        /\ httpCall.allowed
        /\ httpCall.status = "fetch" \/ httpCall.requests >= 1

\* scrapeUrl requested a page under /a after the host answered 404 to the
\* request for its robots.txt.
C16_Witness ==
  /\ httpCall.op = "scrapeUrl"
  /\ httpCall.requests = 1
  /\ UrlPath(httpCall.url) = "/a"
  /\ robots.requests[getBaseUrl(httpCall.url)] =
       <<RobotsResponse(404, "Not Found")>>


(***************************************************************************)
(* Properties of the scrape scheduler with a failing database (SpecScrape).*)
(***************************************************************************)
\* The jobs of the current selection the loop has gone through.
JobsProcessed ==
  {scrapeRun.pendingArticles[i] : i \in 1..(scrapeRun.next - 1)}

JobsSelected ==
  {scrapeRun.pendingArticles[i] : i \in 1..Len(scrapeRun.pendingArticles)}

IsTerminal(article) == article.status \in {"success", "failed"}

\* C11: an exception raised while a job is processed does not reach the
\* caller of scrapeAndPersistArticles: the call never rejects, every job whose
\* processing raised is recorded as failed, and a finished call has gone
\* through all the jobs it selected.
C11_JobExceptionContained ==
  /\ scrapeRun.status # "threw"
  /\ \A id \in scrapeRun.raised : scrapedArticle[id].status = "failed"
  /\ scrapeRun.status = "done" =>
        \A id \in JobsSelected : IsTerminal(scrapedArticle[id])

\* C12: delay(1000) runs between two consecutive calls of scrapeUrl, whatever
\* came of the job of the first.
C12_DelayBetweenInvocations ==
  [][(/\ Len(scrapeRun.invoked) >= 1
      /\ Len(scrapeRun'.invoked) = Len(scrapeRun.invoked) + 1)
      => scrapeRun.delayed]_vars

\* C13: a job that is success or failed is never changed again, scrapeUrl is
\* never called for it again, and it is never among the jobs a call still
\* has to process.
C13_TerminalJobsUntouched ==
  [][\A id \in 1..Len(scrapedArticle) :
        IsTerminal(scrapedArticle[id]) =>
          /\ scrapedArticle'[id] = scrapedArticle[id]
          /\ \A i \in scrapeRun'.next..Len(scrapeRun'.pendingArticles) :
                scrapeRun'.pendingArticles[i] # id
          /\ (/\ scrapeRun'.invoked # scrapeRun.invoked
              /\ scrapeRun'.invoked # <<>>) =>
                scrapeRun'.invoked[Len(scrapeRun'.invoked)] # id
    ]_vars

\* A second scheduler call went through a job while the table held a job an
\* earlier call had recorded as failed after a rejected write.
C13_Witness ==
  /\ scrapeRun.status = "done"
  /\ scrapeRun.invoked # <<>>
  /\ scrapeRun.raised = {}
  /\ \E id \in 1..Len(scrapedArticle) :
        /\ id \notin JobsSelected
        /\ scrapedArticle[id].status = "failed"
        /\ scrapedArticle[id].error = StorageError


(***************************************************************************)
(* Properties of the embedding batch (Spec).                               *)
(***************************************************************************)
\* The articles a batch may take: success, with content, without any row in
\* Embedding.
Embeddable ==
  {id \in 1..Len(scrapedArticle) :
     /\ scrapedArticle[id].status = "success"
     /\ scrapedArticle[id].content # NULL
     /\ \A i \in 1..Len(embedding) : embedding[i].articleId # id}

EmbedStarts == embedRun'.status = "running" /\ embedRun'.next = 1

EmbedStep ==
  embedRun.status = "running" /\ embedRun'.next = embedRun.next + 1

PartlyEmbedded ==
  {id \in 1..Len(scrapedArticle) :
     /\ scrapedArticle[id].content # NULL
     /\ countEmbeddings(embedding, id) >= 1
     /\ countEmbeddings(embedding, id) < Len(chunkText(scrapedArticle[id].content))}

\* C22: the rows written before a failure stay; an article with at least
\* one embedding never gets another one, from a processArticle call or from a
\* batch, and no batch selects it; an article that is success with content
\* and still has no embedding is selected by the next batch without limit.
C22_PartialSetKept ==
  /\ [][/\ Len(embedding') >= Len(embedding)
        /\ SubSeq(embedding', 1, Len(embedding)) = embedding
        /\ \A id \in 1..Len(scrapedArticle) :
              countEmbeddings(embedding, id) >= 1 =>
                 countEmbeddings(embedding', id) = countEmbeddings(embedding, id)
        /\ EmbedStarts =>
              /\ \A id \in Range(embedRun'.articles) :
                    countEmbeddings(embedding, id) = 0
              /\ embedRun'.limit = <<>> =>
                    Embeddable \subseteq Range(embedRun'.articles)
       ]_vars
  /\ [](\A id \in PartlyEmbedded :
           (embedCall.articleId = id /\ ~embedCall.threw) =>
              embedCall.returned = 0 /\ embedCall.inserted = 0)

\* A batch has returned without selecting the one article that is partly
\* embedded, after selecting and embedding an article whose first attempt had
\* failed before any row was written.
C22_Witness ==
  /\ embedRun.status = "done"
  /\ PartlyEmbedded # {}
  /\ PartlyEmbedded \cap Range(embedRun.articles) = {}
  /\ embedRun.stats.processed = 1
  /\ embedRun.stats.embeddings >= 3


(***************************************************************************)
(* Properties of overlapping calls (SpecWorkers, SpecGenerator).           *)
(***************************************************************************)
\* C23: whatever the interleaving of two processArticle calls, an article
\* has at most one embedding per granularity and position index.
C23_OneSetPerArticle ==
  \A i, j \in 1..Len(embedding) :
     (/\ embedding[i].articleId = embedding[j].articleId
      /\ embedding[i].chunkType = embedding[j].chunkType
      /\ embedding[i].index = embedding[j].index) => i = j

\* C24: pipeline() is called at most once, and every call that has its
\* pipeline has the same instance.
C24_ModelInitialisedOnce ==
  /\ generator.constructed <= 1
  /\ \A c, d \in Callers :
        (/\ generator.caller[c].pc \in {"loaded", "returned"}
         /\ generator.caller[d].pc \in {"loaded", "returned"}) =>
           generator.caller[c].pipe = generator.caller[d].pipe

(***************************************************************************)
(* Properties of the Task table (SpecScripts).                             *)
(***************************************************************************)
\* C29: every invocation of a script has appended one Task row; a row is
\* appended in status running; the status of a row changes only from running,
\* to completed or to failed with the error text, and only in the step that
\* ends the invocation that created the row.
C29_OneTaskPerInvocation ==
  /\ [](task.invocations = Len(task.rows))
  /\ [][/\ Len(task'.rows) >= Len(task.rows)
        /\ \A id \in (Len(task.rows) + 1)..Len(task'.rows) :
              task'.rows[id].status = "running"
        /\ \A id \in 1..Len(task.rows) :
              task'.rows[id] # task.rows[id] =>
                 /\ task.rows[id].status = "running"
                 /\ \/ task'.rows[id] = [task.rows[id] EXCEPT !.status = "completed"]
                    \/ task'.rows[id] = [task.rows[id] EXCEPT !.status = "failed",
                                                               !.error = StageError]
                 /\ \E p \in Processes :
                       /\ task.running[p].taskId = id
                       /\ task'.running[p] = NoInvocation
       ]_vars


(***************************************************************************)
(* Properties of fetch runs that meet faults (SpecFaults, SpecFetch,       *)
(* SpecThreads).                                                           *)
(***************************************************************************)
\* The ids of the replies below an item in the feed.
RECURSIVE RepliesBelow(_, _)
RepliesBelow(thread, id) ==
  LET kids == Range(Kids(thread, id))
  IN  kids \cup UNION {RepliesBelow(thread, k) : k \in kids}

\* C25: when a fetch run that follows a terminated one has returned without
\* error, every stored root with an external URL has a job for that URL and
\* every stored root has all its replies stored, as after a fetch run that
\* was not interrupted.
C25_KilledRunSafeToRerun ==
  (/\ fetchRun.status = "done"
   /\ prevFetch.killed
   /\ fetchRun.result.errors = <<>>) =>
     \A s \in DOMAIN hnStory :
        /\ hnStory[s].url # NULL => JobsForUrl(hnStory[s].url) # {}
        /\ RepliesBelow(feed.thread, s) \subseteq DOMAIN hnComment

\* C26: a run during which the database was unreachable or rejected a write
\* does not return normally: no fetch run returns a result that lists a
\* storage failure among its errors, and no scrape run returns after a write
\* of one of its jobs was rejected.
C26_StorageFailureIsFatal ==
  /\ fetchRun.status = "done" =>
        \A i \in 1..Len(fetchRun.result.errors) :
           fetchRun.result.errors[i].error # StorageError
  /\ scrapeRun.status = "done" => scrapeRun.raised = {}

\* C27: in the result of a fetch run, stories.length + skipped +
\* errors.length is the number of ids selected.
C27_EveryIdAccounted ==
  fetchRun.status = "done" =>
     Len(fetchRun.result.stories) + fetchRun.result.skipped
       + Len(fetchRun.result.errors) = Len(fetchRun.storyIds)

\* The parent links from a stored reply lead, through stored replies of the
\* same root, to that root.
RECURSIVE ResolvesTo(_, _)
ResolvesTo(id, storyId) ==
  LET parent == hnComment[id].parent
  IN  IF parent \in DOMAIN hnComment
      THEN hnComment[parent].storyId = storyId /\ ResolvesTo(parent, storyId)
      ELSE parent = storyId

ChunksOfType(chunks, chunkType) ==
  SelectSeq(chunks, LAMBDA chunk : chunk.chunkType = chunkType)

Numbered(chunks) ==
  \A i \in 1..Len(chunks) :
     chunks[i].index = i - 1 /\ chunks[i].totalChunks = Len(chunks)

\* C30: chunkText returns one full chunk holding the whole input, with index
\* 0 and totalChunks 1, then the paragraph chunks, then the sentence chunks;
\* the chunks of each granularity are numbered 0, 1, ..., n-1 in output order
\* and carry totalChunks n, the number of chunks of that granularity.
C30_ChunkNumbering ==
  chunkCall # NoChunkCall =>
    LET chunks == chunkCall.chunks
        paragraphs == ChunksOfType(chunks, "paragraph")
        sentences == ChunksOfType(chunks, "sentence")
    IN  /\ chunks[1] = [content |-> chunkCall.text, chunkType |-> "full",
                        index |-> 0, totalChunks |-> 1]
        /\ Len(ChunksOfType(chunks, "full")) = 1
        /\ chunks = <<chunks[1]>> \o paragraphs \o sentences
        /\ Numbered(paragraphs)
        /\ Numbered(sentences)
        /\ SeqMap(LAMBDA chunk : chunk.content, paragraphs)
             = chunkCall.paragraphChunks
        /\ SeqMap(LAMBDA chunk : chunk.content, sentences)
             = chunkCall.sentenceChunks

\* A call whose text the paragraph splitter kept whole and the sentence
\* splitter cut in two.
C30_Witness ==
  /\ chunkCall.text = "One. Two."
  /\ Len(chunkCall.paragraphChunks) = 1
  /\ chunkCall.sentenceChunks = <<"One.", "Two.">>
  /\ Len(chunkCall.chunks) = 4


(***************************************************************************)
(* Properties of pages without text (Spec).                                *)
(***************************************************************************)
\* The jobs stored as success with null content.
TextlessJobs ==
  {id \in 1..Len(scrapedArticle) :
     /\ scrapedArticle[id].status = "success"
     /\ scrapedArticle[id].content = NULL}

\* C31: a page in which extractContent finds no text makes scrapeUrl return
\* success with null content and a null error; the scheduler stores the job
\* as success with null content and counts it in success; no embedding
\* batch selects such a job; and a processArticle call on it throws and
\* writes no Embedding row, so that the job never has one.
C31_TextlessPage ==
  /\ [](\A h \in HtmlPages :
          extractContent(h).content = NULL =>
             LET result == scrapeUrlResult([kind |-> "html", html |-> h])
             IN  /\ result.success
                 /\ result.content = NULL
                 /\ result.error = NULL)
  /\ [][(/\ ScrapeStep
          /\ scrapeRun'.result.success
          /\ scrapeRun'.result.content = NULL) =>
            LET id == scrapeRun.pendingArticles[scrapeRun.next]
            IN  /\ scrapedArticle'[id].status = "success"
                /\ scrapedArticle'[id].content = NULL
                /\ scrapeRun'.stats.success = scrapeRun.stats.success + 1
                /\ scrapeRun'.stats.failed = scrapeRun.stats.failed
       ]_vars
  /\ [][EmbedStarts => Range(embedRun'.articles) \cap TextlessJobs = {}]_vars
  /\ [][\A id \in TextlessJobs :
           embedCall'.articleId = id /\ embedCall' # embedCall =>
              /\ embedCall'.threw
              /\ embedCall'.inserted = 0
              /\ embedding' = embedding
       ]_vars
  /\ [](\A id \in TextlessJobs : countEmbeddings(embedding, id) = 0)

\* The scheduler stored a job as success with null content, a batch started
\* after it selected nothing, and a processArticle call on the job threw.
C31_Witness ==
  /\ TextlessJobs = {1}
  /\ Len(scrapedArticle) = 1
  /\ embedRun.status = "done"
  /\ embedRun.articles = <<>>
  /\ embedCall.articleId = 1
  /\ embedCall.threw
  /\ embedCall.inserted = 0


(***************************************************************************)
(* Properties of the retry loops (SpecClient).                             *)
(***************************************************************************)
\* A response that a retry may cure: 5xx, or no response at all.
IsTransient(response) == response = NetworkError \/ response.status >= 500

\* The endpoint of the call in progress fails every request.
PersistentFailure ==
  /\ httpCall.status \notin {"idle", "check-permission"}
  /\ httpCall.allowed
  /\ \A i \in 1..Len(httpCall.script) : IsTransient(httpCall.script[i])

ErrorOf(response) ==
  IF response = NetworkError THEN "fetch failed"
  ELSE "Failed to fetch: " \o StatusText(response.status)

\* C32: a fetchItem or fetchNewStories call whose endpoint fails every
\* request with a 5xx response or a network error makes 4 requests (the
\* first attempt and 3 retries), waits 1000, 2000 and 4000 ms after the
\* first, second and third failure and not after the fourth, then throws the
\* error of the fourth request; it never returns and it always ends.
C32_ApiRetrySchedule ==
  /\ []((PersistentFailure /\ httpCall.op \in ApiOps) =>
          /\ httpCall.requests <= DefaultMaxRetries + 1
          /\ httpCall.status # "returned"
          /\ Len(httpCall.delays) =
               (IF httpCall.requests <= DefaultMaxRetries
                THEN httpCall.requests ELSE DefaultMaxRetries)
          /\ \A i \in 1..Len(httpCall.delays) :
                httpCall.delays[i] = BaseDelay * Pow2(i - 1)
          /\ httpCall.status = "threw" <=>
                httpCall.requests = DefaultMaxRetries + 1
          /\ httpCall.status = "threw" =>
                httpCall.lastError =
                  ErrorOf(Response(httpCall.script, DefaultMaxRetries + 1)))
  /\ (PersistentFailure /\ httpCall.op \in ApiOps)
       ~> (PersistentFailure /\ httpCall.op \in ApiOps
             /\ httpCall.status = "threw")

\* A call gave up after four requests answered 500, 503 and two network
\* errors.
C32_Witness ==
  /\ PersistentFailure
  /\ httpCall.op = "fetchItem"
  /\ httpCall.script =
       <<HttpResponse(500, HtmlContentType), HttpResponse(503, HtmlContentType),
         NetworkError>>
  /\ httpCall.status = "threw"
  /\ httpCall.requests = 4
  /\ httpCall.delays = <<1000, 2000, 4000>>
  /\ httpCall.lastError = "fetch failed"

ScrapeErrorOf(response) ==
  IF response = NetworkError THEN "fetch failed"
  ELSE "HTTP " \o StatusText(response.status)

\* C33: a scrapeUrl call whose host fails every request with a 5xx response
\* or a network error makes maxRetries retries after its first attempt
\* (maxRetries + 1 requests), waits 1000 * 2^attempt ms before each retry,
\* and then returns a failure that carries the error of its last request.
C33_ScrapeRetrySchedule ==
  (PersistentFailure /\ httpCall.op = "scrapeUrl"
     /\ httpCall.status = "returned") =>
     /\ httpCall.requests = httpCall.maxRetries + 1
     /\ Len(httpCall.delays) = httpCall.maxRetries
     /\ \A i \in 1..Len(httpCall.delays) :
           httpCall.delays[i] = 1000 * Pow2(i - 1)
     /\ httpCall.result =
          ScrapeResult(FALSE, NULL, NULL,
                       ScrapeErrorOf(Response(httpCall.script, httpCall.requests)))


(***************************************************************************)
(* Properties of the reply traversal (SpecTraversal).                      *)
(***************************************************************************)
IsPrefix(p, q) == Len(p) <= Len(q) /\ SubSeq(q, 1, Len(p)) = p

\* fetchItem returns a comment-typed item for the id.
ServedComment(id) == id \notin down /\ HnItem(feed, id).type = "comment"

\* The place of a request in the thread: the comments above it and its id.
NodeOf(entry) == Append(entry.path, entry.id)

\* The ids requested from the kids list of the given place, in order.
RequestedUnder(node) ==
  SeqMap(ItemId, SelectSeq(traversal.requested, LAMBDA e : e.path = node))

\* C34: no reply is fetched at a depth >= the max depth (the replies of the
\* root are at depth 0).  When the call returns, the kids list of the root
\* and of every fetched comment-typed reply above the max depth has been
\* fetched whole and in its order, nothing else has been fetched, every
\* reply was fetched after its parent, the requests made below a reply come
\* before the request for its next sibling, and the comments returned are
\* the comment-typed items fetched, in the order of their requests.  The
\* call returns what the function used by the fetch run returns.
C34_DepthFirstTraversal ==
  LET req == traversal.requested
  IN  /\ \A i \in 1..Len(req) :
            /\ req[i].depth < traversal.maxDepth
            /\ req[i].depth = Len(req[i].path)
      /\ traversal.status = "returned" =>
            /\ RequestedUnder(<<>>) =
                  (IF traversal.maxDepth > 0 THEN traversal.commentIds ELSE <<>>)
            /\ \A i \in 1..Len(req) :
                  RequestedUnder(NodeOf(req[i])) =
                    (IF /\ ServedComment(req[i].id)
                        /\ req[i].depth + 1 < traversal.maxDepth
                     THEN HnItem(feed, req[i].id).kids
                     ELSE <<>>)
            /\ \A j \in 1..Len(req) :
                  req[j].path # <<>> =>
                     \E i \in 1..(j - 1) : NodeOf(req[i]) = req[j].path
            /\ \A i \in 1..Len(req) : \A k \in (i + 1)..Len(req) :
                  IsPrefix(NodeOf(req[i]), req[k].path) =>
                     \A j \in (i + 1)..k : IsPrefix(NodeOf(req[i]), req[j].path)
            /\ SeqMap(ItemId, traversal.result) =
                  SeqMap(ItemId,
                         SelectSeq(req, LAMBDA e : ServedComment(e.id)))
            /\ traversal.result =
                  fetchComments(traversal.commentIds, 0, traversal.maxDepth).comments
            /\ SeqMap(ItemId, req) =
                  fetchComments(traversal.commentIds, 0, traversal.maxDepth).requested

\* A call without max depth returned the first reply of the story, the reply
\* of that reply and then the second reply of the story.
C34_Witness ==
  /\ traversal.status = "returned"
  /\ traversal.maxDepth = Infinity
  /\ feed.thread = "forked"
  /\ SeqMap(ItemId, traversal.requested) = <<FirstReply, ThirdReply, SecondReply>>
  /\ SeqMap(ItemId, traversal.result) = <<FirstReply, ThirdReply, SecondReply>>

\* C35: a fetchComments call with no max depth returns, whatever finite
\* thread the API serves, threads in which a reply is reachable from itself
\* through kids lists included.
C35_TraversalTerminates ==
  (traversal.status = "running" /\ traversal.maxDepth = Infinity)
    ~> (traversal.status = "returned")


(***************************************************************************)
(* Properties of the items that are skipped (SpecSkips).                   *)
(***************************************************************************)
\* C36: an id of the selection whose item is null or not of type story gets
\* no HnStory row and no job, is not among the stories of the result, and
\* none of the replies below it is fetched or stored; a reply id whose item
\* is null or not of type comment is not among the comments returned, gets
\* no HnComment row, and none of the replies below it is fetched or stored.
C36_OtherItemsSkipped ==
  LET requested == Range(fetchRun.requested)
      Untouched(id) ==
        \A k \in RepliesBelow(feed.thread, id) :
           k \notin requested /\ k \notin DOMAIN hnComment
  IN  /\ \A s \in StoryIds :
            HnItem(feed, s).type # "story" =>
               /\ s \notin DOMAIN hnStory
               /\ s \notin Range(fetchRun.result.stories)
               /\ \A i \in 1..Len(scrapedArticle) : scrapedArticle[i].storyId # s
               /\ Untouched(s)
      /\ \A c \in ReplyIds :
            HnItem(feed, c).type # "comment" =>
               /\ c \notin Range(fetchRun.result.comments)
               /\ c \notin DOMAIN hnComment
               /\ Untouched(c)

\* A run is over: the newest id was served as null and left no trace; the
\* first reply of story 1 was fetched, found to be of another type and
\* dropped, and the reply below it was never requested.
C36_Witness ==
  /\ fetchRun.status = "done"
  /\ feed.thread = "nested"
  /\ feed.kind[MaxStories] = NULL
  /\ feed.reply[FirstReply] = "story"
  /\ fetchRun.requested = <<MaxStories, 1, FirstReply>>
  /\ DOMAIN hnStory = {1}
  /\ Len(scrapedArticle) = 1
  /\ fetchRun.result.comments = <<>>
  /\ DOMAIN hnComment = {}


(***************************************************************************)
(* Properties of overlapping fetch runs (SpecOverlap).                     *)
(***************************************************************************)
\* C37: when two fetch runs that process two roots with the same external
\* URL have both returned, whatever their interleaving, there is exactly one
\* job for the URL, neither run has recorded an error, and the replies of
\* both roots are persisted.
C37_DuplicateUrlNeverAnError ==
  (/\ fetcher[1].pc = "returned"
   /\ fetcher[2].pc = "returned"
   /\ feed.kind[1] \in Urls
   /\ feed.kind[1] = feed.kind[MaxStories]) =>
     /\ Cardinality({i \in 1..Len(scrapedArticle) :
                       scrapedArticle[i].url = feed.kind[1]}) = 1
     /\ fetcher[1].errors = <<>>
     /\ fetcher[2].errors = <<>>
     /\ RepliesBelow(feed.thread, 1) \subseteq DOMAIN hnComment
     /\ RepliesBelow(feed.thread, MaxStories) \subseteq DOMAIN hnComment


(***************************************************************************)
(* Properties of the selection policies (SpecSelection).                   *)
(***************************************************************************)
\* C38: with count = N the selection is the first N ids of the list, in
\* list order (the whole list when it has fewer), and no item is fetched,
\* whether or not hours is given as well; with neither count nor hours the
\* selection is the one of the time window with T = now - 24 hours: the ids
\* with an item of time >= T that come before the first item of time < T,
\* nothing being fetched after that item.
C38_CountAndDefaultWindow ==
  filterCall.called =>
    LET storyIds == filterCall.storyIds
        options == filterCall.options
    IN  /\ "count" \in DOMAIN options =>
              /\ Len(filterCall.filtered) =
                    (IF options.count < Len(storyIds) THEN options.count
                     ELSE Len(storyIds))
              /\ \A i \in 1..Len(filterCall.filtered) :
                    filterCall.filtered[i] = storyIds[i]
              /\ filterCall.fetched = <<>>
        /\ DOMAIN options = {} =>
              LET T == NowSeconds - 24 * SecondsPerHour
                  stop == FirstOlder(storyIds, T)
                  Recent(id) == IsRecentItem(id, T)
              IN  /\ filterCall.filtered =
                        SelectSeq(SubSeqTo(storyIds, stop - 1), Recent)
                  /\ filterCall.fetched = SubSeqTo(storyIds, stop)

\* A call with count = 1 and hours = 1 selected the first id of the list,
\* whose item is 25 hours old, without fetching anything.
C38_Witness ==
  /\ filterCall.called
  /\ filterCall.options = [count |-> 1, hours |-> 1]
  /\ feed.kind[MaxListLen] = undefined
  /\ feed.time[MaxListLen] = NowSeconds - 25 * SecondsPerHour
  /\ filterCall.filtered = <<MaxListLen>>
  /\ filterCall.fetched = <<>>


(***************************************************************************)
(* Properties of the extraction (SpecExtract).                             *)
(***************************************************************************)
IsBlank(line) == \A i \in 1..Len(line) : line[i] \in WhiteSpace

\* The line without the white space before its first and after its last
\* character that is not white space.
Strip(line) ==
  LET inked == {i \in 1..Len(line) : line[i] \notin WhiteSpace}
  IN  IF inked = {} THEN <<>>
      ELSE SubSeq(line, CHOOSE i \in inked : \A j \in inked : i <= j,
                        CHOOSE i \in inked : \A j \in inked : i >= j)

\* C39: the title is the first of og title, twitter title, document title
\* and first heading that is not empty, with the white space at its ends
\* removed, or null when all four are empty or missing; the body is the text
\* of the first article, else of the first main, else of the first element
\* of role main, else of the whole body (the removed elements apart); the
\* content is made of the lines of that text that are not blank, each
\* without white space at its ends, in order, and it is null exactly when no
\* such line exists.
C39_ExtractionPriority ==
  extractCall.called =>
    LET doc == extractCall.doc
        kept == SelectSeq(doc.elements, LAMBDA e : e.tag \notin RemovedElements)
        Attr(meta) == IF meta = {} THEN <<>> ELSE CHOOSE t \in meta : TRUE
        headings == {k \in 1..Len(kept) : kept[k].tag = "h1"}
        heading ==
          IF headings = {} THEN <<>>
          ELSE kept[CHOOSE k \in headings : \A m \in headings : k <= m].text
        candidates ==
          <<Attr(doc.ogTitle), Attr(doc.twitterTitle), doc.titleTag, heading>>
        filled == {i \in 1..4 : candidates[i] # <<>>}
        containers == <<"article", "main", "[role='main']">>
        Found(i) == {k \in 1..Len(kept) : kept[k].tag = containers[i]}
        existing == {i \in 1..3 : Found(i) # {}}
        text ==
          IF existing = {} THEN TextOf(kept)
          ELSE LET first == CHOOSE i \in existing : \A j \in existing : i <= j
               IN  kept[CHOOSE k \in Found(first) :
                          \A m \in Found(first) : k <= m].text
        inked == SelectSeq(split(text), LAMBDA line : ~IsBlank(line))
    IN  /\ extractCall.title =
              (IF filled = {} THEN {}
               ELSE {Strip(candidates[CHOOSE i \in filled :
                                        \A j \in filled : i <= j])})
        /\ extractCall.content = {} <=> Len(inked) = 0
        /\ \A content \in extractCall.content :
              /\ split(content) = SeqMap(Strip, inked)
              /\ \A i \in 1..Len(split(content)) :
                    LET line == split(content)[i]
                    IN  /\ line # <<>>
                        /\ line[1] \notin WhiteSpace
                        /\ line[Len(line)] \notin WhiteSpace

\* A document with a main and then an article: the content is the one line
\* of the article, without the white space around it.
C39_Witness ==
  /\ extractCall.called
  /\ extractCall.doc.elements =
       <<Element("main", <<"x">>), Element("article", <<" ", "y", "\n">>)>>
  /\ extractCall.content = {<<"y">>}
  /\ extractCall.title = {}
====
